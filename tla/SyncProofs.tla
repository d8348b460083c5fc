------------------------------ MODULE SyncProofs ------------------------------
(***************************************************************************)
(* What apps show of the daemon.                                           *)
(*                                                                         *)
(* The directories, for any workspaces, values, sessions and any number of *)
(* tombstones kept: catching up with the numbered collection is exact, and *)
(* what changes under an app that follows is shown.  The first rests on    *)
(* why an entry differs from an earlier state of the collection: it has a  *)
(* number after it, or its tombstone was dropped, and then the reader is   *)
(* too old to be told changes.  The second rests on what an app will show  *)
(* when everything on its way has arrived.                                 *)
(*                                                                         *)
(* The timeline of a chat, for any page size: what it shows is one range   *)
(* of rows, and a chat that is ready shows the last.  It rests on what is  *)
(* on the connection: behind a page, or behind the rows a complete chat    *)
(* shows, come exactly the rows that it lacks, in order, or the notice     *)
(* that the rows were replaced.                                            *)
(***************************************************************************)
EXTENDS DirectorySync, TimelineSync, FiniteSetTheorems, SequenceTheorems, WellFoundedInduction, TLAPS

-----------------------------------------------------------------------------
(* The collection *)

CollectionTypes ==
    /\ headSeq \in Nat /\ expired \in Nat
    /\ values \in Entries
    /\ seqs \in [Ids -> Nat]
    /\ contents \in [0..headSeq -> Entries]

Explained ==
    \A s \in 0..headSeq, id \in Ids :
        contents[s][id] # values[id] => seqs[id] > s \/ (values[id] = Gone /\ s < expired)

CollectionInv == CollectionTypes /\ Explained

-----------------------------------------------------------------------------
\* An empty collection, at the start and in a new daemon
LEMMA EmptyHolds ==
    ASSUME headSeq = 0, expired = 0, values = NoEntries, seqs = [id \in Ids |-> 0],
           contents = [s \in 0..0 |-> NoEntries]
    PROVE  CollectionInv
<1>1. NoEntries \in Entries
  BY DEF NoEntries, Entries
<1>2. 0..0 = {0}
  OBVIOUS
<1> QED
  BY <1>1, <1>2 DEF CollectionInv, CollectionTypes, Explained

LEMMA ForgetHolds ==
    ASSUME Forget PROVE CollectionInv'
<1>1. NoEntries \in Entries
  BY DEF NoEntries, Entries
<1>2. CollectionTypes'
  BY <1>1 DEF Forget, CollectionTypes, Entries
<1>3. Explained'
  BY DEF Forget, Explained, NoEntries
<1> QED
  BY <1>2, <1>3 DEF CollectionInv

-----------------------------------------------------------------------------
(***************************************************************************)
(* One write: the numbers it gives out are new, and what it drops is noted *)
(***************************************************************************)
LEMMA WriteHolds ==
    ASSUME CollectionInv,
           NEW scope \in SUBSET Ids,
           NEW updates \in [scope -> Values \cup {Gone}],
           Write(updates)
    PROVE  CollectionInv'
<1> DEFINE changed == Changed(updates)
           last    == headSeq + Cardinality(changed)
<1>1. PICK order \in Orders(updates) :
        LET numbers == Numbered(updates, order)
            dropped == {numbers[id] : id \in Surplus(values', numbers)} \cup {expired}
        IN /\ values' = [id \in Ids |-> IF id \in Changed(updates) THEN updates[id] ELSE values[id]]
           /\ seqs' = [id \in Ids |-> IF id \in Surplus(values', numbers) THEN 0 ELSE numbers[id]]
           /\ headSeq' = headSeq + Cardinality(Changed(updates))
           /\ expired' \in {s \in dropped : \A r \in dropped : r <= s}
           /\ contents' = [s \in 0..headSeq' |->
                 IF s <= headSeq THEN contents[s]
                 ELSE [id \in Ids |-> IF id \in Changed(updates) /\ order[id] <= s
                                      THEN updates[id] ELSE values[id]]]
  BY DEF Write
<1> DEFINE numbers == Numbered(updates, order)
           surplus == Surplus(values', numbers)
<1>2. /\ headSeq \in Nat /\ expired \in Nat /\ values \in Entries
      /\ seqs \in [Ids -> Nat] /\ contents \in [0..headSeq -> Entries]
  BY DEF CollectionInv, CollectionTypes
<1>3. changed \in SUBSET Ids
  BY DEF Changed
<1>4. Cardinality(changed) \in Nat
  BY <1>3, FS_Subset, FS_CardinalityType, CollectionAssumption
<1>5. headSeq' \in Nat /\ headSeq' >= headSeq /\ headSeq' = last
  BY <1>1, <1>2, <1>4
<1>6. order \in [changed -> headSeq + 1..last]
  BY DEF Orders
<1>7. \A id \in changed : order[id] \in Nat /\ order[id] > headSeq
  BY <1>2, <1>4, <1>6
<1>8. numbers \in [Ids -> Nat]
  BY <1>2, <1>7 DEF Numbered
<1>9. \A id \in surplus : id \in Ids /\ values'[id] = Gone
  BY DEF Surplus
<1>10. /\ expired' \in Nat /\ expired <= expired'
       /\ \A id \in surplus : numbers[id] <= expired'
  <2>1. PICK dropped : dropped = {numbers[id] : id \in surplus} \cup {expired}
    OBVIOUS
  <2>2. expired' \in dropped /\ \A r \in dropped : r <= expired'
    BY <1>1, <2>1
  <2>3. dropped \subseteq Nat
    BY <1>2, <1>8, <1>9, <2>1
  <2> QED
    BY <2>1, <2>2, <2>3
<1>11. values' = [id \in Ids |-> IF id \in changed THEN updates[id] ELSE values[id]]
  BY <1>1
<1>12. seqs' = [id \in Ids |-> IF id \in surplus THEN 0 ELSE numbers[id]]
  BY <1>1
<1>13. \A id \in changed : updates[id] \in Values \cup {Gone}
  BY DEF Changed
<1>14. values' \in Entries
  BY <1>2, <1>11, <1>13 DEF Entries
<1>15. CollectionTypes'
  <2>1. seqs' \in [Ids -> Nat]
    BY <1>8, <1>12
  <2>2. contents' \in [0..headSeq' -> Entries]
    <3>1. ASSUME NEW s \in 0..headSeq', s <= headSeq PROVE contents[s] \in Entries
      BY <1>2, <1>5, <3>1
    <3>2. ASSUME NEW s \in 0..headSeq'
          PROVE  [id \in Ids |-> IF id \in changed /\ order[id] <= s
                                 THEN updates[id] ELSE values[id]] \in Entries
      BY <1>2, <1>13 DEF Entries
    <3> QED
      BY <1>1, <3>1, <3>2
  <2> QED
    BY <1>5, <1>10, <1>14, <2>1, <2>2 DEF CollectionTypes
<1>16. Explained'
  <2> SUFFICES ASSUME NEW s \in 0..headSeq', NEW id \in Ids,
                      contents'[s][id] # values'[id]
               PROVE  seqs'[id] > s \/ (values'[id] = Gone /\ s < expired')
    BY DEF Explained
  \* It is enough that the number given, or the one dropped before, is later
  <2>1. ASSUME numbers[id] > s
        PROVE  seqs'[id] > s \/ (values'[id] = Gone /\ s < expired')
    <3>1. CASE id \in surplus
      BY <1>5, <1>8, <1>9, <1>10, <2>1, <3>1
    <3>2. CASE id \notin surplus
      BY <1>12, <2>1, <3>2
    <3> QED
      BY <3>1, <3>2
  <2>2. CASE s <= headSeq
    <3>1. s \in 0..headSeq /\ contents'[s] = contents[s]
      BY <1>1, <1>2, <1>5, <2>2
    <3>2. CASE id \in changed
      BY <1>2, <1>5, <1>7, <2>1, <2>2, <3>2 DEF Numbered
    <3>3. CASE id \notin changed
      <4>1. values'[id] = values[id] /\ numbers[id] = seqs[id]
        BY <1>11, <3>3 DEF Numbered
      <4>2. seqs[id] > s \/ (values[id] = Gone /\ s < expired)
        BY <3>1, <4>1 DEF CollectionInv, Explained
      <4>3. CASE seqs[id] > s
        BY <2>1, <4>1, <4>3
      <4>4. CASE values[id] = Gone /\ s < expired
        BY <1>2, <1>5, <1>10, <4>1, <4>4
      <4> QED
        BY <4>2, <4>3, <4>4
    <3> QED
      BY <3>2, <3>3
  <2>3. CASE ~(s <= headSeq)
    <3>1. contents'[s][id] = IF id \in changed /\ order[id] <= s THEN updates[id] ELSE values[id]
      BY <1>1, <2>3
    <3>2. values'[id] = IF id \in changed THEN updates[id] ELSE values[id]
      BY <1>11
    <3>3. id \in changed /\ ~(order[id] <= s)
      BY <3>1, <3>2
    <3>4. numbers[id] > s
      BY <1>5, <1>7, <3>3 DEF Numbered
    <3> QED
      BY <2>1, <3>4
  <2> QED
    BY <2>2, <2>3
<1> QED
  BY <1>15, <1>16 DEF CollectionInv

-----------------------------------------------------------------------------
\* What the reader is told makes up for what differs
LEMMA ExplainedIsExact ==
    ASSUME CollectionInv PROVE CatchUpIsExact
<1> SUFFICES ASSUME NEW s \in 0..headSeq
             PROVE  Caught(contents[s], ReadAfter(s)) = values
  BY DEF CatchUpIsExact
<1>1. /\ headSeq \in Nat /\ expired \in Nat /\ values \in Entries /\ seqs \in [Ids -> Nat]
      /\ contents[s] \in Entries
  BY DEF CollectionInv, CollectionTypes
<1>2. ASSUME NEW id \in Ids
      PROVE  Caught(contents[s], ReadAfter(s))[id] = values[id]
  <2>1. CASE Known(s)
    <3>1. /\ id \in ReadAfter(s).removals <=> values[id] = Gone /\ seqs[id] > s
          /\ id \in ReadAfter(s).entries <=> values[id] # Gone /\ seqs[id] > s
          /\ ReadAfter(s).mode = "changes" /\ ReadAfter(s).values = values
      BY <2>1 DEF ReadAfter
    <3>2. contents[s][id] = values[id] \/ seqs[id] > s
      BY <1>1, <2>1 DEF CollectionInv, Explained, Known
    <3> QED
      BY <3>1, <3>2 DEF Caught
  <2>2. CASE ~Known(s)
    <3>1. /\ id \notin ReadAfter(s).removals
          /\ id \in ReadAfter(s).entries <=> values[id] # Gone
          /\ ReadAfter(s).mode = "snapshot" /\ ReadAfter(s).values = values
      BY <2>2 DEF ReadAfter
    <3> QED
      BY <3>1 DEF Caught
  <2> QED
    BY <2>1, <2>2
<1>3. Caught(contents[s], ReadAfter(s)) = [id \in Ids |-> Caught(contents[s], ReadAfter(s))[id]]
  BY DEF Caught
<1> QED
  BY <1>1, <1>2, <1>3 DEF Entries

(***************************************************************************)
(* A reader who had the collection as it was at any number that the daemon *)
(* has given out has it as it is after one read (versioned-collection.ts), *)
(* however many entries there are and however few tombstones are kept.     *)
(***************************************************************************)
THEOREM CatchUpIsExactHolds == CollectionSpec => []CatchUpIsExact
<1>1. CollectionInit => CollectionInv
  BY EmptyHolds DEF CollectionInit
<1>2. CollectionInv /\ [CollectionNext]_collectionVars => CollectionInv'
  <2> SUFFICES ASSUME CollectionInv, [CollectionNext]_collectionVars
               PROVE  CollectionInv'
    OBVIOUS
  <2>1. CASE \E scope \in SUBSET Ids : \E updates \in [scope -> Values \cup {Gone}] : Write(updates)
    BY <2>1, WriteHolds
  <2>2. CASE Forget
    BY <2>2, ForgetHolds
  <2>3. CASE UNCHANGED collectionVars
    BY <2>3 DEF collectionVars, CollectionInv, CollectionTypes, Explained
  <2> QED
    BY <2>1, <2>2, <2>3 DEF CollectionNext
<1>3. CollectionInv => CatchUpIsExact
  BY ExplainedIsExact
<1> QED
  BY <1>1, <1>2, <1>3, PTL DEF CollectionSpec

-----------------------------------------------------------------------------
(* Sequences *)

Among(x, s) == \E i \in 1..Len(s) : s[i] = x

LEMMA LeastNatural ==
    ASSUME NEW S \in SUBSET Nat, S # {}
    PROVE  \E n \in S : \A m \in S : n <= m
<1> DEFINE Less == OpToRel(<, Nat)
<1>1. IsWellFoundedOn(Less, Nat)
  BY NatLessThanWellFounded
<1> HIDE DEF Less
<1>2. PICK n \in S : \A m \in S : ~(<<m, n>> \in Less)
  BY <1>1, WFMin
<1>3. \A m \in Nat, k \in Nat : m < k => <<m, k>> \in Less
  BY DEF Less, OpToRel
<1>4. ASSUME NEW m \in S PROVE n <= m
  <2>1. m \in Nat /\ n \in Nat /\ ~(m < n)
    BY <1>2, <1>3
  <2> QED
    BY <2>1
<1> QED
  BY <1>4

LEMMA AppendIs ==
    ASSUME NEW S, NEW s \in Seq(S), NEW x \in S
    PROVE  /\ Append(s, x) \in Seq(S) /\ Len(Append(s, x)) = Len(s) + 1 /\ Len(s) \in Nat
           /\ \A i \in 1..Len(s) : Append(s, x)[i] = s[i]
           /\ Append(s, x)[Len(s) + 1] = x
           /\ \A y : Among(y, Append(s, x)) <=> Among(y, s) \/ y = x
<1>1. /\ Append(s, x) \in Seq(S) /\ Len(Append(s, x)) = Len(s) + 1 /\ Len(s) \in Nat
      /\ \A i \in 1..Len(s) : Append(s, x)[i] = s[i]
      /\ Append(s, x)[Len(s) + 1] = x
  OBVIOUS
<1>2. \A i \in 1..Len(s) + 1 : i \in 1..Len(s) \/ i = Len(s) + 1
  BY <1>1
<1> HIDE <1>2
<1>3. \A y : Among(y, Append(s, x)) <=> Among(y, s) \/ y = x
  <2> DEFINE t == Append(s, x)
  <2> HIDE DEF t
  <2>1. ASSUME NEW y, Among(y, t) PROVE Among(y, s) \/ y = x
    <3>1. PICK i \in 1..Len(s) + 1 : t[i] = y
      BY <1>1, <2>1 DEF Among, t
    <3> QED
      BY <1>1, <1>2, <3>1 DEF Among, t
  <2>2. ASSUME NEW y, Among(y, s) \/ y = x PROVE Among(y, t)
    <3>1. CASE Among(y, s)
      <4>1. PICK i \in 1..Len(s) : s[i] = y
        BY <3>1 DEF Among
      <4> QED
        BY <1>1, <4>1 DEF Among, t
    <3>2. CASE y = x
      BY <1>1, <3>2 DEF Among, t
    <3> QED
      BY <2>2, <3>1, <3>2
  <2> QED
    BY <2>1, <2>2 DEF t
<1> QED
  BY <1>1, <1>3

LEMMA TailIs ==
    ASSUME NEW S, NEW s \in Seq(S), s # <<>>
    PROVE  /\ Head(s) = s[1] /\ s[1] \in S /\ Among(s[1], s) /\ 1 \in 1..Len(s)
           /\ Tail(s) \in Seq(S) /\ Len(Tail(s)) = Len(s) - 1 /\ Len(s) \in Nat
           /\ \A i \in 1..Len(Tail(s)) : Tail(s)[i] = s[i + 1] /\ i + 1 \in 1..Len(s)
           /\ \A y : Among(y, Tail(s)) => Among(y, s)
<1>1. /\ Head(s) = s[1] /\ s[1] \in S /\ 1 \in 1..Len(s)
      /\ Tail(s) \in Seq(S) /\ Len(Tail(s)) = Len(s) - 1 /\ Len(s) \in Nat
      /\ \A i \in 1..Len(Tail(s)) : Tail(s)[i] = s[i + 1] /\ i + 1 \in 1..Len(s)
  OBVIOUS
<1> QED
  BY <1>1 DEF Among

\* Two sequences one behind the other
LEMMA ConcatIs ==
    ASSUME NEW S, NEW s \in Seq(S), NEW t \in Seq(S)
    PROVE  /\ s \o t \in Seq(S) /\ Len(s \o t) = Len(s) + Len(t) /\ Len(s) \in Nat /\ Len(t) \in Nat
           /\ \A i \in 1..Len(s) : (s \o t)[i] = s[i]
           /\ \A i \in 1..Len(t) : (s \o t)[Len(s) + i] = t[i]
           /\ \A i \in 1..Len(s \o t) : \/ i \in 1..Len(s)
                                        \/ i - Len(s) \in 1..Len(t) /\ i = Len(s) + (i - Len(s))
           /\ \A y : Among(y, s \o t) <=> Among(y, s) \/ Among(y, t)
<1> DEFINE u == s \o t
<1>1. /\ u \in Seq(S) /\ Len(u) = Len(s) + Len(t) /\ Len(s) \in Nat /\ Len(t) \in Nat
      /\ \A i \in 1..Len(s) : u[i] = s[i]
      /\ \A i \in 1..Len(t) : u[Len(s) + i] = t[i]
  OBVIOUS
<1> HIDE DEF u
<1>2. \A i \in 1..Len(u) : \/ i \in 1..Len(s)
                           \/ i - Len(s) \in 1..Len(t) /\ i = Len(s) + (i - Len(s))
  BY <1>1
<1>3. ASSUME NEW y, Among(y, u) PROVE Among(y, s) \/ Among(y, t)
  BY <1>1, <1>2, <1>3 DEF Among
<1>4. ASSUME NEW y, Among(y, s) \/ Among(y, t) PROVE Among(y, u)
  <2>1. \A i \in 1..Len(s) : i \in 1..Len(u)
    BY <1>1
  <2>2. \A i \in 1..Len(t) : Len(s) + i \in 1..Len(u)
    BY <1>1
  <2> QED
    BY <1>1, <1>4, <2>1, <2>2 DEF Among
<1> QED
  BY <1>1, <1>2, <1>3, <1>4 DEF u


-----------------------------------------------------------------------------
(* Updates one behind the other *)

LEMMA MaxIs ==
    ASSUME NEW n \in Nat, NEW S \in SUBSET (1..n), S # {}
    PROVE  Max(S) \in S /\ \A i \in S : i <= Max(S)
<1> DEFINE Above == {k \in Nat : \A i \in S : i <= k}
<1>1. n \in Above
  OBVIOUS
<1>2. PICK k \in Above : \A j \in Above : k <= j
  BY <1>1, LeastNatural
<1>3. k \in S
  <2> SUFFICES ASSUME k \notin S PROVE FALSE
    OBVIOUS
  <2>1. PICK i \in S : TRUE
    OBVIOUS
  <2>2. i \in Nat /\ i >= 1 /\ i <= k /\ k \in Nat
    BY <1>2, <2>1
  <2>3. k - 1 \in Nat
    BY <2>2
  <2>4. \A j \in S : j <= k /\ j # k /\ j \in Nat
    BY <1>2
  <2>5. \A j \in S : j <= k - 1
    BY <2>2, <2>4
  <2>6. k - 1 \in Above
    BY <2>3, <2>5
  <2> QED
    BY <1>2, <2>2, <2>6
<1>4. \E x \in S : \A y \in S : x >= y
  BY <1>2, <1>3
<1> QED
  BY <1>4 DEF Max

\* What is shown of a row: its last update, or what was shown before
LEMMA ShownIs ==
    ASSUME NEW q \in Seq(Update), NEW id \in Ids, NEW rows
    PROVE  \/ /\ \A i \in 1..Len(q) : q[i].id # id
              /\ Shown(rows, q)[id] = rows[id]
           \/ \E i \in 1..Len(q) :
                 /\ q[i].id = id /\ \A j \in 1..Len(q) : q[j].id = id => j <= i
                 /\ Shown(rows, q)[id] = q[i].value
<1> DEFINE own == {i \in DOMAIN q : q[i].id = id}
<1>1. DOMAIN q = 1..Len(q) /\ Len(q) \in Nat
  OBVIOUS
<1>2. Shown(rows, q)[id] = IF own = {} THEN rows[id] ELSE q[Max(own)].value
  BY DEF Shown
<1>3. CASE own = {}
  BY <1>1, <1>2, <1>3
<1>4. CASE own # {}
  <2>1. own \in SUBSET (1..Len(q))
    BY <1>1
  <2>2. Max(own) \in own /\ \A i \in own : i <= Max(own)
    BY <1>1, <1>4, <2>1, MaxIs
  <2>3. Shown(rows, q)[id] = q[Max(own)].value
    BY <1>2, <1>4
  <2> DEFINE k == Max(own)
  <2> HIDE DEF k
  <2>4. k \in 1..Len(q) /\ q[k].id = id /\ \A j \in 1..Len(q) : q[j].id = id => j <= k
    BY <1>1, <2>2 DEF k
  <2> QED
    BY <2>3, <2>4 DEF k
<1> QED
  BY <1>3, <1>4

LEMMA ShownFun ==
    ASSUME NEW rows, NEW q
    PROVE  Shown(rows, q) = [id \in Ids |-> Shown(rows, q)[id]]
  BY DEF Shown

\* A row without an update stays, one with some shows its last
LEMMA ShownOf ==
    ASSUME NEW q \in Seq(Update), NEW id \in Ids, NEW rows
    PROVE  /\ (\A i \in 1..Len(q) : q[i].id # id) => Shown(rows, q)[id] = rows[id]
           /\ \A i \in 1..Len(q) :
                 q[i].id = id /\ (\A j \in 1..Len(q) : q[j].id = id => j <= i)
                 => Shown(rows, q)[id] = q[i].value
<1>1. ASSUME \A i \in 1..Len(q) : q[i].id # id PROVE Shown(rows, q)[id] = rows[id]
  BY <1>1, ShownIs
<1>2. ASSUME NEW i \in 1..Len(q), q[i].id = id, \A j \in 1..Len(q) : q[j].id = id => j <= i
      PROVE  Shown(rows, q)[id] = q[i].value
  <2>1. PICK k \in 1..Len(q) : /\ q[k].id = id /\ \A j \in 1..Len(q) : q[j].id = id => j <= k
                               /\ Shown(rows, q)[id] = q[k].value
    BY <1>2, ShownIs
  <2>2. i <= k /\ k <= i /\ Len(q) \in Nat
    BY <1>2, <2>1
  <2>3. i = k
    BY <2>2
  <2> QED
    BY <2>1, <2>3
<1> QED
  BY <1>1, <1>2

LEMMA LastShows ==
    ASSUME NEW q \in Seq(Update), NEW id \in Ids, NEW rows, NEW i \in 1..Len(q),
           q[i].id = id, \A j \in 1..Len(q) : q[j].id = id => j <= i
    PROVE  Shown(rows, q)[id] = q[i].value
  BY ShownOf

LEMMA ShownConcat ==
    ASSUME NEW q \in Seq(Update), NEW p \in Seq(Update), NEW rows
    PROVE  Shown(rows, q \o p) = Shown(Shown(rows, q), p)
<1> DEFINE u == q \o p
           mid == Shown(rows, q)
<1>1. /\ u \in Seq(Update) /\ Len(u) = Len(q) + Len(p) /\ Len(q) \in Nat /\ Len(p) \in Nat
      /\ \A i \in 1..Len(q) : u[i] = q[i]
      /\ \A i \in 1..Len(p) : u[Len(q) + i] = p[i]
      /\ \A i \in 1..Len(u) : \/ i \in 1..Len(q)
                              \/ i - Len(q) \in 1..Len(p) /\ i = Len(q) + (i - Len(q))
  BY ConcatIs
<1> HIDE DEF u
<1>4. u \in Seq(Update)
  BY <1>1
<1>2. ASSUME NEW id \in Ids PROVE Shown(rows, u)[id] = Shown(mid, p)[id]
  <2> HIDE DEF mid
  <2>1. CASE \A i \in 1..Len(p) : p[i].id # id
    <3>1. Shown(mid, p)[id] = mid[id]
      BY <2>1, ShownOf
    <3>2. CASE \A i \in 1..Len(q) : q[i].id # id
      <4>1. mid[id] = rows[id]
        BY <3>2, ShownOf DEF mid
      <4>2. \A i \in 1..Len(u) : u[i].id # id
        BY <1>1, <2>1, <3>2
      <4> QED
        BY <1>1, <3>1, <4>1, <4>2, ShownOf
    <3>3. ASSUME NEW i \in 1..Len(q), q[i].id = id, \A j \in 1..Len(q) : q[j].id = id => j <= i,
                 mid[id] = q[i].value
          PROVE  Shown(rows, u)[id] = Shown(mid, p)[id]
      <4>1. i \in 1..Len(u) /\ u[i].id = id /\ u[i].value = q[i].value
        BY <1>1, <3>3
      <4>2. ASSUME NEW j \in 1..Len(u), u[j].id = id PROVE j <= i
        <5>1. CASE j \in 1..Len(q)
          BY <1>1, <3>3, <4>2, <5>1
        <5>2. CASE j - Len(q) \in 1..Len(p) /\ j = Len(q) + (j - Len(q))
          <6>1. u[j] = p[j - Len(q)]
            BY <1>1, <5>2
          <6> QED
            BY <2>1, <4>2, <5>2, <6>1
        <5> QED
          BY <1>1, <5>1, <5>2
      <4>3. Shown(rows, u)[id] = u[i].value
        BY <1>4, <4>1, <4>2, LastShows
      <4> QED
        BY <3>1, <3>3, <4>1, <4>3
    <3> QED
      BY <3>2, <3>3, ShownIs DEF mid
  <2>2. ASSUME NEW i \in 1..Len(p), p[i].id = id, \A j \in 1..Len(p) : p[j].id = id => j <= i,
               Shown(mid, p)[id] = p[i].value
        PROVE  Shown(rows, u)[id] = Shown(mid, p)[id]
    <3>1. Len(q) + i \in 1..Len(u) /\ u[Len(q) + i] = p[i]
      BY <1>1
    <3>2. ASSUME NEW j \in 1..Len(u), u[j].id = id PROVE j <= Len(q) + i
      <4>1. CASE j \in 1..Len(q)
        BY <1>1, <4>1
      <4>2. CASE j - Len(q) \in 1..Len(p) /\ j = Len(q) + (j - Len(q))
        <5>1. u[j] = p[j - Len(q)]
          BY <1>1, <4>2
        <5>2. j - Len(q) <= i
          BY <2>2, <3>2, <4>2, <5>1
        <5> QED
          BY <1>1, <4>2, <5>2
      <4> QED
        BY <1>1, <4>1, <4>2
    <3> DEFINE k == Len(q) + i
    <3>4. k \in 1..Len(u) /\ u[k].id = id /\ \A j \in 1..Len(u) : u[j].id = id => j <= k
      BY <2>2, <3>1, <3>2
    <3>3. Shown(rows, u)[id] = u[Len(q) + i].value
      <4> HIDE DEF k
      <4>1. Shown(rows, u)[id] = u[k].value
        BY <1>4, <3>4, LastShows
      <4> QED
        BY <4>1 DEF k
    <3> QED
      BY <2>2, <3>1, <3>3
  <2> QED
    BY <2>1, <2>2, ShownIs
<1>3. Shown(rows, u) = Shown(mid, p)
  BY <1>2, ShownFun
<1> QED
  BY <1>3 DEF u

LEMMA ShownEmpty ==
    ASSUME NEW rows, NEW id \in Ids PROVE Shown(rows, <<>>)[id] = rows[id]
<1> DEFINE q == <<>>
<1>1. q \in Seq(Update)
  OBVIOUS
<1>2. Len(q) = 0 /\ 1..0 = {}
  OBVIOUS
<1> HIDE DEF q
<1>3. \A i \in 1..Len(q) : q[i].id # id
  BY <1>2
<1>4. Shown(rows, q)[id] = rows[id]
  BY <1>1, <1>3, ShownOf
<1> QED
  BY <1>4 DEF q

LEMMA ShownFew ==
    ASSUME NEW rows, rows = [id \in Ids |-> rows[id]], NEW u \in Update
    PROVE  /\ Shown(rows, <<>>) = rows
           /\ Shown(rows, <<u>>) = [rows EXCEPT ![u.id] = u.value]
<1>2. \A id \in Ids : Shown(rows, <<>>)[id] = rows[id]
  BY ShownEmpty
<1>3. ASSUME NEW id \in Ids
      PROVE  Shown(rows, <<u>>)[id] = IF id = u.id THEN u.value ELSE rows[id]
  <2> DEFINE q == <<u>>
  <2>1. q \in Seq(Update) /\ Len(q) = 1 /\ q[1] = u /\ 1..1 = {1}
    OBVIOUS
  <2> HIDE DEF q
  <2>2. CASE id = u.id
    <3>1. 1 \in 1..Len(q) /\ q[1].id = id /\ \A j \in 1..Len(q) : q[j].id = id => j <= 1
      BY <2>1, <2>2
    <3>2. Shown(rows, q)[id] = q[1].value
      BY <2>1, <3>1, ShownOf
    <3> QED
      BY <2>1, <2>2, <3>2 DEF q
  <2>3. CASE id # u.id
    <3>1. \A j \in 1..Len(q) : q[j].id # id
      BY <2>1, <2>3
    <3>2. Shown(rows, q)[id] = rows[id]
      BY <2>1, <3>1, ShownOf
    <3> QED
      BY <2>3, <3>2 DEF q
  <2> QED
    BY <2>2, <2>3
<1>4. u.id \in Ids
  BY DEF Update
<1>5. Shown(rows, <<>>) = rows
  BY <1>2, ShownFun
<1>6. Shown(rows, <<u>>) = [id \in Ids |-> IF id = u.id THEN u.value ELSE rows[id]]
  BY <1>3, ShownFun
<1> QED
  BY <1>4, <1>5, <1>6

LEMMA ShownTyped ==
    ASSUME NEW X, NEW rows \in [Ids -> X \cup Values \cup {Gone}], NEW q \in Seq(Update)
    PROVE  Shown(rows, q) \in [Ids -> X \cup Values \cup {Gone}]
<1>1. ASSUME NEW id \in Ids PROVE Shown(rows, q)[id] \in X \cup Values \cup {Gone}
  <2>1. CASE Shown(rows, q)[id] = rows[id]
    BY <2>1
  <2>2. ASSUME NEW i \in 1..Len(q), Shown(rows, q)[id] = q[i].value
        PROVE  Shown(rows, q)[id] \in X \cup Values \cup {Gone}
    <3>1. q[i] \in Update
      OBVIOUS
    <3> QED
      BY <2>2, <3>1 DEF Update
  <2> QED
    BY <2>1, <2>2, ShownIs
<1> QED
  BY <1>1, ShownFun


-----------------------------------------------------------------------------
(* What is on its way to an app *)

Message == [kind: {"list"}, read: List] \cup [kind: {"update"}, update: Update]

ListFirst(box) == box # <<>> /\ box[1].kind = "list"
AllUpdates(box) == \A i \in 1..Len(box) : box[i].kind = "update"
Updates(box) == [i \in 1..Len(box) |-> box[i].update]
LiveAll(f) == [i \in DOMAIN f |-> Live(f[i])]

LEMMA UpdatesAre ==
    ASSUME NEW box \in Seq(Message), AllUpdates(box)
    PROVE  /\ Updates(box) \in Seq(Update) /\ Len(Updates(box)) = Len(box) /\ Len(box) \in Nat
           /\ \A i \in 1..Len(box) : Updates(box)[i] = box[i].update /\ box[i].update \in Update
<1>1. Len(box) \in Nat /\ \A i \in 1..Len(box) : box[i] \in Message
  OBVIOUS
<1>2. \A i \in 1..Len(box) : box[i].update \in Update
  BY <1>1 DEF Message, AllUpdates
<1>3. Updates(box) \in [1..Len(box) -> Update]
  BY <1>2 DEF Updates
<1>4. \A n \in Nat : \A q \in [1..n -> Update] : q \in Seq(Update) /\ Len(q) = n
  OBVIOUS
<1>5. \A i \in 1..Len(box) : Updates(box)[i] = box[i].update
  BY DEF Updates
<1> QED
  BY <1>1, <1>2, <1>3, <1>4, <1>5

LEMMA UpdatesConcat ==
    ASSUME NEW a \in Seq(Message), NEW b \in Seq(Message), AllUpdates(a), AllUpdates(b)
    PROVE  AllUpdates(a \o b) /\ a \o b \in Seq(Message) /\ Updates(a \o b) = Updates(a) \o Updates(b)
<1> DEFINE c == a \o b
<1>1. /\ c \in Seq(Message) /\ Len(c) = Len(a) + Len(b) /\ Len(a) \in Nat /\ Len(b) \in Nat
      /\ \A i \in 1..Len(a) : c[i] = a[i]
      /\ \A i \in 1..Len(b) : c[Len(a) + i] = b[i]
      /\ \A i \in 1..Len(c) : \/ i \in 1..Len(a)
                              \/ i - Len(a) \in 1..Len(b) /\ i = Len(a) + (i - Len(a))
  BY ConcatIs
<1> HIDE DEF c
<1>2. AllUpdates(c)
  <2> SUFFICES ASSUME NEW i \in 1..Len(c) PROVE c[i].kind = "update"
    BY DEF AllUpdates
  <2>1. CASE i \in 1..Len(a)
    BY <1>1, <2>1 DEF AllUpdates
  <2>2. CASE i - Len(a) \in 1..Len(b) /\ i = Len(a) + (i - Len(a))
    BY <1>1, <2>2 DEF AllUpdates
  <2> QED
    BY <1>1, <2>1, <2>2
<1> DEFINE x == Updates(a)
           y == Updates(b)
           z == Updates(c)
<1>3. /\ x \in Seq(Update) /\ Len(x) = Len(a) /\ \A i \in 1..Len(a) : x[i] = a[i].update
      /\ y \in Seq(Update) /\ Len(y) = Len(b) /\ \A i \in 1..Len(b) : y[i] = b[i].update
      /\ z \in Seq(Update) /\ Len(z) = Len(c) /\ \A i \in 1..Len(c) : z[i] = c[i].update
  BY <1>1, <1>2, UpdatesAre
<1> HIDE DEF x, y, z
<1>7. x \in Seq(Update) /\ y \in Seq(Update)
  BY <1>3
<1>4. /\ x \o y \in Seq(Update) /\ Len(x \o y) = Len(x) + Len(y)
      /\ \A i \in 1..Len(x) : (x \o y)[i] = x[i]
      /\ \A i \in 1..Len(y) : (x \o y)[Len(x) + i] = y[i]
  BY <1>7, ConcatIs
<1>5. ASSUME NEW i \in 1..Len(z) PROVE z[i] = (x \o y)[i]
  <2>1. CASE i \in 1..Len(a)
    BY <1>1, <1>3, <1>4, <2>1, SMTT(30)
  <2>2. CASE i - Len(a) \in 1..Len(b) /\ i = Len(a) + (i - Len(a))
    <3>1. PICK j \in 1..Len(b) : i = Len(a) + j
      BY <2>2
    <3>2. c[i] = b[j] /\ y[j] = b[j].update /\ z[i] = c[i].update /\ (x \o y)[i] = y[j]
      BY <1>1, <1>3, <1>4, <3>1
    <3> QED
      BY <3>2
  <2> QED
    BY <1>1, <1>3, <2>1, <2>2
<1>6. z = x \o y
  BY <1>1, <1>3, <1>4, <1>5, SeqEqual
<1> QED
  BY <1>1, <1>2, <1>6 DEF c, x, y, z

LEMMA UpdatesTail ==
    ASSUME NEW box \in Seq(Message), box # <<>>, AllUpdates(box)
    PROVE  /\ box[1].update \in Update /\ Head(box) = box[1]
           /\ AllUpdates(Tail(box)) /\ Tail(box) \in Seq(Message)
           /\ Updates(box) = <<box[1].update>> \o Updates(Tail(box))
<1> DEFINE t == Tail(box)
           h == <<box[1]>>
<1>1. /\ Head(box) = box[1] /\ box[1] \in Message /\ t \in Seq(Message) /\ Len(t) = Len(box) - 1
      /\ Len(box) \in Nat /\ 1 \in 1..Len(box)
      /\ \A i \in 1..Len(t) : t[i] = box[i + 1] /\ i + 1 \in 1..Len(box)
  BY TailIs
<1>2. h \in Seq(Message) /\ Len(h) = 1 /\ h[1] = box[1] /\ 1..1 = {1}
  BY <1>1
<1>3. h \o t = box
  BY <1>1
<1> HIDE DEF t, h
<1>4. AllUpdates(t) /\ AllUpdates(h)
  BY <1>1, <1>2 DEF AllUpdates
<1>5. Updates(h) = <<box[1].update>>
  <2>1. Updates(h) = [i \in 1..1 |-> h[i].update]
    BY <1>2 DEF Updates
  <2> QED
    BY <1>2, <2>1
<1>6. box[1].update \in Update
  BY <1>1, UpdatesAre
<1> QED
  BY <1>1, <1>2, <1>3, <1>4, <1>5, <1>6, UpdatesConcat DEF t

LEMMA LiveAllIs ==
    ASSUME NEW f \in Seq(Update)
    PROVE  LiveAll(f) \in Seq(Message) /\ AllUpdates(LiveAll(f)) /\ Updates(LiveAll(f)) = f
<1>1. DOMAIN f = 1..Len(f) /\ Len(f) \in Nat /\ \A i \in 1..Len(f) : f[i] \in Update
  OBVIOUS
<1>2. \A u \in Update : Live(u) \in Message /\ Live(u).kind = "update" /\ Live(u).update = u
  BY DEF Live, Message
<1>3. LiveAll(f) \in [1..Len(f) -> Message]
  BY <1>1, <1>2 DEF LiveAll
<1>4. \A n \in Nat : \A q \in [1..n -> Message] : q \in Seq(Message) /\ Len(q) = n
  OBVIOUS
<1>5. LiveAll(f) \in Seq(Message) /\ Len(LiveAll(f)) = Len(f)
  BY <1>1, <1>3, <1>4
<1>6. \A i \in 1..Len(f) : LiveAll(f)[i] = Live(f[i])
  BY <1>1 DEF LiveAll
<1>7. AllUpdates(LiveAll(f))
  BY <1>1, <1>2, <1>5, <1>6 DEF AllUpdates
<1>8. Updates(LiveAll(f)) = [i \in 1..Len(f) |-> f[i]]
  BY <1>1, <1>2, <1>5, <1>6 DEF Updates
<1>9. f = [i \in 1..Len(f) |-> f[i]]
  OBVIOUS
<1> QED
  BY <1>5, <1>7, <1>8, <1>9

-----------------------------------------------------------------------------
(* What an app will show when everything on its way has arrived *)

AppOf(a) == [refreshing |-> a.refreshing, answer |-> a.answer, recorded |-> a.recorded,
             replica |-> a.replica, cursor |-> a.cursor, told |-> a.told]
AppTyped(a) ==
    /\ a = AppOf(a)
    /\ a.refreshing \in BOOLEAN /\ a.answer \in OrUnset(List)
    /\ a.recorded \in Seq(Update) /\ a.replica \in Entries

Final(app, box) ==
    IF ListFirst(box) THEN Shown(Caught(app.replica, box[1].read), Updates(Tail(box)))
    ELSE IF app.refreshing
    THEN Shown(Shown(Caught(app.replica, app.answer), app.recorded), Updates(box))
    ELSE Shown(app.replica, Updates(box))

\* A list is the first message of a refresh, and nothing is recorded before it
MailShape(app, box) ==
    /\ ListFirst(box) => /\ app.refreshing /\ app.answer = Unset /\ app.recorded = <<>>
                         /\ AllUpdates(Tail(box))
    /\ ~ListFirst(box) => AllUpdates(box)
    /\ ~app.refreshing => app.answer = Unset /\ app.recorded = <<>>

LEMMA CaughtFun ==
    ASSUME NEW base, NEW read
    PROVE  Caught(base, read) = [id \in Ids |-> Caught(base, read)[id]]
  BY DEF Caught

LEMMA NoMail ==
    /\ <<>> \in Seq(Message) /\ AllUpdates(<<>>) /\ ~ListFirst(<<>>) /\ Updates(<<>>) = <<>>
<1>1. <<>> \in Seq(Message) /\ Len(<<>>) = 0 /\ 1..0 = {}
  OBVIOUS
<1>2. AllUpdates(<<>>) /\ ~ListFirst(<<>>)
  BY <1>1 DEF AllUpdates, ListFirst
<1>3. Updates(<<>>) \in Seq(Update) /\ Len(Updates(<<>>)) = 0
  <2> DEFINE box == <<>>
  <2>1. box \in Seq(Message) /\ AllUpdates(box) /\ Len(box) = 0
    BY <1>1, <1>2
  <2> HIDE DEF box
  <2>2. Updates(box) \in Seq(Update) /\ Len(Updates(box)) = 0
    BY <2>1, UpdatesAre
  <2> QED
    BY <2>2 DEF box
<1>4. Updates(<<>>) = <<>>
  BY <1>3
<1> QED
  BY <1>1, <1>2, <1>4

\* Updates behind what is on its way
LEMMA FinalPosts ==
    ASSUME NEW box \in Seq(Message), NEW f \in Seq(Update), NEW app, MailShape(app, box)
    PROVE  /\ box \o LiveAll(f) \in Seq(Message)
           /\ MailShape(app, box \o LiveAll(f))
           /\ ListFirst(box) => ListFirst(box \o LiveAll(f))
           /\ Final(app, box \o LiveAll(f)) = Shown(Final(app, box), f)
<1> DEFINE m == LiveAll(f)
           c == box \o m
<1>1. m \in Seq(Message) /\ AllUpdates(m) /\ Updates(m) = f
  BY LiveAllIs
<1> HIDE DEF m
<1>2. c \in Seq(Message)
  BY <1>1
<1>3. CASE ListFirst(box)
  <2> DEFINE t == Tail(box)
  <2>1. box # <<>> /\ t \in Seq(Message) /\ c # <<>> /\ c[1] = box[1] /\ Tail(c) = t \o m
    <3>1. box # <<>>
      BY <1>3 DEF ListFirst
    <3> QED
      BY <1>1, <3>1
  <2>2. AllUpdates(t)
    BY <1>3 DEF MailShape
  <2> HIDE DEF t, c
  <2>3. AllUpdates(t \o m) /\ Updates(t \o m) = Updates(t) \o f
    BY <1>1, <2>1, <2>2, UpdatesConcat
  <2>4. ListFirst(c)
    BY <1>3, <2>1 DEF ListFirst
  <2>5. Updates(t) \in Seq(Update)
    BY <2>1, <2>2, UpdatesAre
  <2>6. Final(app, c) = Shown(Caught(app.replica, box[1].read), Updates(t) \o f)
    BY <2>1, <2>3, <2>4 DEF Final
  <2>7. Final(app, box) = Shown(Caught(app.replica, box[1].read), Updates(t))
    BY <1>3 DEF Final, t
  <2>8. Final(app, c) = Shown(Final(app, box), f)
    BY <2>5, <2>6, <2>7, ShownConcat
  <2>9. MailShape(app, c)
    BY <1>3, <2>1, <2>3, <2>4 DEF MailShape
  <2> QED
    BY <1>2, <2>4, <2>8, <2>9 DEF c, m
<1>4. CASE ~ListFirst(box)
  <2> HIDE DEF c
  <2>1. AllUpdates(box)
    BY <1>4 DEF MailShape
  <2>2. AllUpdates(c) /\ Updates(c) = Updates(box) \o f
    BY <1>1, <2>1, UpdatesConcat DEF c
  <2>3. Updates(box) \in Seq(Update)
    BY <2>1, UpdatesAre
  <2>4. ~ListFirst(c)
    <3>1. c # <<>> => 1 \in 1..Len(c)
      BY <1>2
    <3> QED
      BY <2>2, <3>1 DEF ListFirst, AllUpdates
  <2>5. MailShape(app, c)
    BY <1>4, <2>2, <2>4 DEF MailShape
  <2>6. \A rows : Shown(rows, Updates(c)) = Shown(Shown(rows, Updates(box)), f)
    BY <2>2, <2>3, ShownConcat
  <2>7. Final(app, c) = Shown(Final(app, box), f)
    BY <1>4, <2>4, <2>6 DEF Final
  <2> QED
    BY <1>2, <1>4, <2>5, <2>7 DEF c, m
<1> QED
  BY <1>3, <1>4

\* The app takes the next update, records it or applies it
LEMMA FinalTakes ==
    ASSUME NEW box \in Seq(Message), box # <<>>, ~ListFirst(box), NEW app, AppTyped(app),
           MailShape(app, box), NEW u, u = Head(box).update, NEW next, AppTyped(next),
           next.refreshing = app.refreshing, next.answer = app.answer,
           app.refreshing => next.recorded = Append(app.recorded, u) /\ next.replica = app.replica,
           ~app.refreshing => /\ next.recorded = app.recorded
                              /\ next.replica = [app.replica EXCEPT ![u.id] = u.value]
    PROVE  /\ MailShape(next, Tail(box)) /\ ~ListFirst(Tail(box))
           /\ Final(next, Tail(box)) = Final(app, box)
<1> DEFINE t == Tail(box)
<1>1. AllUpdates(box)
  BY DEF MailShape
<1>2. u \in Update /\ AllUpdates(t) /\ t \in Seq(Message) /\ Updates(box) = <<u>> \o Updates(t)
  BY <1>1, UpdatesTail
<1> HIDE DEF t
<1>3. ~ListFirst(t)
  <2>1. t # <<>> => 1 \in 1..Len(t)
    BY <1>2
  <2> QED
    BY <1>2, <2>1 DEF ListFirst, AllUpdates
<1>4. MailShape(next, t)
  BY <1>2, <1>3 DEF MailShape
<1> DEFINE w == <<u>>
<1>5. Updates(t) \in Seq(Update) /\ w \in Seq(Update) /\ Updates(box) = w \o Updates(t)
  BY <1>2, UpdatesAre
<1>9. app.recorded \in Seq(Update) /\ Append(app.recorded, u) = app.recorded \o w
  <2>1. app.recorded \in Seq(Update) /\ u \in Update
    BY <1>2 DEF AppTyped
  <2> QED
    BY <2>1, AppendIsConcat
<1>10. app.replica = [id \in Ids |-> app.replica[id]]
  BY DEF AppTyped, Entries
<1>11. Shown(app.replica, w) = [app.replica EXCEPT ![u.id] = u.value]
  BY <1>2, <1>10, ShownFew, ZenonT(40)
<1> HIDE DEF w
<1>6. \A rows : Shown(rows, Updates(box)) = Shown(Shown(rows, w), Updates(t))
  BY <1>5, ShownConcat
<1>7. CASE app.refreshing
  <2> DEFINE base == Caught(app.replica, app.answer)
  <2> HIDE DEF base
  <2>2. Shown(base, next.recorded) = Shown(Shown(base, app.recorded), w)
    <3>1. next.recorded = app.recorded \o w
      BY <1>7, <1>9
    <3> QED
      BY <1>5, <1>9, <3>1, ShownConcat
  <2>3. Final(next, t) = Shown(Shown(base, next.recorded), Updates(t))
    BY <1>3, <1>7 DEF Final, base
  <2>4. Final(app, box) = Shown(Shown(base, app.recorded), Updates(box))
    BY <1>7 DEF Final, base
  <2> QED
    BY <1>3, <1>4, <1>6, <2>2, <2>3, <2>4 DEF t
<1>8. CASE ~app.refreshing
  <2>2. next.replica = Shown(app.replica, w)
    BY <1>8, <1>11
  <2>3. Final(next, t) = Shown(next.replica, Updates(t)) /\ Final(app, box) = Shown(app.replica, Updates(box))
    BY <1>3, <1>8 DEF Final
  <2> QED
    BY <1>3, <1>4, <1>6, <2>2, <2>3 DEF t
<1> QED
  BY <1>7, <1>8

\* The list becomes the answer
LEMMA FinalTakesList ==
    ASSUME NEW box \in Seq(Message), ListFirst(box), NEW app, AppTyped(app), MailShape(app, box),
           NEW next, AppTyped(next), next.refreshing = app.refreshing, next.replica = app.replica,
           next.recorded = app.recorded, next.answer = Head(box).read
    PROVE  /\ MailShape(next, Tail(box)) /\ ~ListFirst(Tail(box))
           /\ Final(next, Tail(box)) = Final(app, box)
<1> DEFINE t == Tail(box)
<1>1. box # <<>> /\ Head(box) = box[1] /\ t \in Seq(Message)
  <2>1. box # <<>>
    BY DEF ListFirst
  <2> QED
    BY <2>1
<1>2. AllUpdates(t) /\ app.refreshing /\ app.recorded = <<>>
  BY DEF MailShape
<1>3. Final(app, box) = Shown(Caught(app.replica, box[1].read), Updates(t))
  BY DEF Final
<1> HIDE DEF t
<1>4. ~ListFirst(t)
  <2>1. t # <<>> => 1 \in 1..Len(t)
    BY <1>1
  <2> QED
    BY <1>2, <2>1 DEF ListFirst, AllUpdates
<1>5. MailShape(next, t)
  BY <1>2, <1>4 DEF MailShape
<1> DEFINE base == Caught(app.replica, box[1].read)
<1>6. base = [id \in Ids |-> base[id]]
  BY CaughtFun
<1>7. Final(next, t) = Shown(Shown(base, <<>>), Updates(t))
  BY <1>1, <1>2, <1>4 DEF Final
<1> HIDE DEF base
<1>8. Shown(base, <<>>) = base
  <2>1. \A id \in Ids : Shown(base, <<>>)[id] = base[id]
    BY ShownEmpty
  <2> QED
    BY <1>6, <2>1, ShownFun
<1> QED
  BY <1>3, <1>4, <1>5, <1>7, <1>8 DEF t, base

\* The refresh is complete
LEMMA FinalCompletes ==
    ASSUME NEW box \in Seq(Message), NEW app, AppTyped(app), MailShape(app, box), app.answer # Unset,
           NEW next, ~next.refreshing, next.answer = Unset, next.recorded = <<>>,
           next.replica = Shown(Caught(app.replica, app.answer), app.recorded)
    PROVE  MailShape(next, box) /\ ~ListFirst(box) /\ Final(next, box) = Final(app, box)
<1>1. app.refreshing /\ ~ListFirst(box) /\ AllUpdates(box)
  BY DEF MailShape
<1> QED
  BY <1>1 DEF MailShape, Final

-----------------------------------------------------------------------------
(* The inductive invariant *)

Row == Values \cup {Gone, Unset}
Observer == [at: {"none", "starting", "answered", "live"}, listed: OrUnset(Entries \cup List),
             due: SUBSET Ids, building: [Ids -> Row], kept: Seq(Update), sent: [Ids -> Row],
             since: SUBSET Ids]

\* What a session has sent of a row is what its app will show, and of a row that changed
\* since it is live it has sent the latest, unless it still is about to
SessionInv(o, app, box, rows) ==
    /\ MailShape(app, box)
    /\ o.at = "none" => o = Unsubscribed /\ box = <<>> /\ ~app.refreshing
    /\ o.at = "starting" => /\ box = <<>> /\ o.sent = Nothing /\ app.refreshing
                            /\ app.answer = Unset /\ app.recorded = <<>>
                            /\ o.listed \in OrUnset(Entries)
    /\ o.at \in {"answered", "live"} =>
          /\ app.refreshing /\ app.answer = Unset => ListFirst(box)
          /\ \A id \in Ids : o.sent[id] # Unset => Final(app, box)[id] = o.sent[id]
    /\ o.at # "live" => o.since = {}
    /\ o.at # "none" =>
          \A id \in Ids : o.building[id] # Unset /\ id \notin o.due => o.building[id] = rows[id]
    /\ o.at = "live" =>
          \A id \in o.since : id \notin o.due /\ o.building[id] = Unset => rows[id] \in {Gone, o.sent[id]}

SessionOK(o, app, box, rows) ==
    o \in Observer /\ AppTyped(app) /\ box \in Seq(Message) /\ SessionInv(o, app, box, rows)

DirectoryInv ==
    /\ CollectionInv /\ truth \in Entries
    /\ observers = [s \in Sessions |-> observers[s]]
    /\ outbox = [s \in Sessions |-> outbox[s]]
    /\ apps = [s \in Sessions |-> apps[s]]
    /\ \A s \in Sessions : SessionOK(observers[s], apps[s], outbox[s], truth)

LEMMA Distinct ==
    /\ Unset \notin Values \cup {Gone} /\ Unset \notin List /\ Unset \notin Entries
    /\ Nothing \in [Ids -> Row] /\ Unsubscribed \in Observer
<1>1. /\ Unset \notin Values \cup {Gone} /\ Unset \notin List /\ Unset \notin Entries
      /\ Nothing \in [Ids -> Row]
  BY DirectoryAssumption DEF Nothing, Row
<1>2. <<>> \in Seq(Update) /\ Unset \in OrUnset(Entries \cup List)
  BY DEF OrUnset
<1> QED
  BY <1>1, <1>2 DEF Unsubscribed, Observer

\* A session whose connection was cut off, or that never had one
LEMMA CutOffOK ==
    ASSUME NEW app, AppTyped(app), NEW rows
    PROVE  SessionOK(Unsubscribed, CutOff(app), <<>>, rows)
<1>1. /\ app.replica = [id \in Ids |-> app.replica[id]] /\ app.recorded \in Seq(Update)
      /\ app.replica \in Entries /\ <<>> \in Seq(Update)
  BY DEF AppTyped, Entries
<1>2. Shown(app.replica, app.recorded) \in Entries
  BY <1>1, ShownTyped DEF Entries
<1>3. /\ CutOff(app) = AppOf(CutOff(app)) /\ CutOff(app).refreshing = FALSE
      /\ CutOff(app).answer = Unset /\ CutOff(app).recorded = <<>>
      /\ CutOff(app).replica = Shown(app.replica, app.recorded)
  BY DEF CutOff, AppOf
<1>4. AppTyped(CutOff(app))
  BY <1>1, <1>2, <1>3 DEF AppTyped, OrUnset
<1>5. MailShape(CutOff(app), <<>>)
  BY <1>3, NoMail DEF MailShape
<1>6. Unsubscribed.at = "none" /\ Unsubscribed.since = {}
  BY DEF Unsubscribed
<1> QED
  BY <1>3, <1>4, <1>5, <1>6, NoMail, Distinct DEF SessionOK, SessionInv

-----------------------------------------------------------------------------
(* The loop over the kept updates *)

NewsFrom(kept, read, g, n) ==
    g = [i \in 0..n |->
          IF i = 0 THEN <<>>
          ELSE IF IsNews(kept[i], read) THEN Append(g[i - 1], kept[i]) ELSE g[i - 1]]

LEMMA NewsExist ==
    ASSUME NEW kept, NEW read, Len(kept) \in Nat
    PROVE  \E g : NewsFrom(kept, read, g, Len(kept))
<1> DEFINE Bad == {n \in Nat : ~ \E g : NewsFrom(kept, read, g, n)}
           Next1(g, i) == IF IsNews(kept[i], read) THEN Append(g[i - 1], kept[i]) ELSE g[i - 1]
           Step(x, i) == IF IsNews(kept[i], read) THEN Append(x, kept[i]) ELSE x
<1>0. \A n, g : NewsFrom(kept, read, g, n) <=> g = [i \in 0..n |-> IF i = 0 THEN <<>> ELSE Step(g[i - 1], i)]
  BY DEF NewsFrom
<1> HIDE DEF Step
<1>1. SUFFICES ASSUME Bad # {} PROVE FALSE
  OBVIOUS
<1>2. PICK n \in Bad : \A m \in Bad : n <= m
  BY <1>1, LeastNatural
<1>3. CASE n = 0
  <2> DEFINE g == [i \in 0..0 |-> <<>>]
  <2>1. g = [i \in 0..0 |-> IF i = 0 THEN <<>> ELSE Step(g[i - 1], i)]
    OBVIOUS
  <2>2. NewsFrom(kept, read, g, 0)
    BY <1>0, <2>1
  <2> QED
    BY <1>3, <2>2, <1>2
<1>4. CASE n # 0
  <2>1. n - 1 \in Nat /\ n - 1 \notin Bad
    BY <1>2, <1>4
  <2>2. PICK h : NewsFrom(kept, read, h, n - 1)
    BY <2>1
  <2>3. h = [i \in 0..n - 1 |-> IF i = 0 THEN <<>> ELSE Step(h[i - 1], i)]
    BY <1>0, <2>2
  <2> DEFINE g == [i \in 0..n |-> IF i = n THEN Step(h[n - 1], n) ELSE h[i]]
  <2>4. \A i \in 0..n : g[i] = IF i = 0 THEN <<>> ELSE Step(g[i - 1], i)
    <3> SUFFICES ASSUME NEW i \in 0..n
                 PROVE  g[i] = IF i = 0 THEN <<>> ELSE Step(g[i - 1], i)
      OBVIOUS
    <3>1. CASE i = n
      <4>1. g[i] = Step(h[n - 1], n) /\ i # 0 /\ g[i - 1] = h[i - 1]
        BY <3>1, <1>4, <2>1
      <4> QED
        BY <3>1, <4>1
    <3>2. CASE i # n
      <4>1. i \in 0..n - 1 /\ g[i] = h[i] /\ (i # 0 => i - 1 \in 0..n - 1 /\ g[i - 1] = h[i - 1])
        BY <3>2, <2>1
      <4> HIDE DEF g
      <4>2. h[i] = IF i = 0 THEN <<>> ELSE Step(h[i - 1], i)
        BY <4>1, <2>3
      <4> QED
        BY <4>1, <4>2
    <3> QED
      BY <3>1, <3>2
  <2>5. NewsFrom(kept, read, g, n)
    BY <1>0, <2>4
  <2> QED
    BY <2>5, <1>2
<1> QED
  BY <1>3, <1>4

LEMMA NewsTyped ==
    ASSUME NEW kept \in Seq(Update), NEW read
    PROVE  News(kept, read) \in Seq(Update)
<1> DEFINE upTo == CHOOSE g : NewsFrom(kept, read, g, Len(kept))
           n == Len(kept)
           Bad == {i \in Nat : i <= n /\ upTo[i] \notin Seq(Update)}
<1>1. n \in Nat /\ \A i \in 1..n : kept[i] \in Update
  OBVIOUS
<1>2. NewsFrom(kept, read, upTo, n)
  BY <1>1, NewsExist
<1>3. News(kept, read) = upTo[n]
  BY DEF News, NewsFrom
<1> HIDE DEF upTo, n
<1>4. \A i \in 0..n : upTo[i] = IF i = 0 THEN <<>>
                                ELSE IF IsNews(kept[i], read) THEN Append(upTo[i - 1], kept[i])
                                ELSE upTo[i - 1]
  BY <1>2 DEF NewsFrom
<1>5. Bad = {}
  <2> SUFFICES ASSUME Bad # {} PROVE FALSE
    OBVIOUS
  <2>1. PICK i \in Bad : \A j \in Bad : i <= j
    BY LeastNatural
  <2>2. i # 0
    <3>1. 0 \in 0..n /\ <<>> \in Seq(Update)
      BY <1>1
    <3>2. upTo[0] = <<>>
      BY <1>4, <3>1
    <3> QED
      BY <2>1, <3>1, <3>2
  <2>3. i - 1 \in Nat /\ i - 1 <= n /\ i \in 1..n /\ i \in 0..n /\ ~(i <= i - 1)
    BY <1>1, <2>1, <2>2
  <2>4. upTo[i - 1] \in Seq(Update)
    BY <2>1, <2>3
  <2>5. upTo[i] \in Seq(Update)
    <3>1. kept[i] \in Update
      BY <1>1, <2>3
    <3>2. Append(upTo[i - 1], kept[i]) \in Seq(Update)
      BY <2>4, <3>1
    <3> QED
      BY <1>4, <2>2, <2>3, <2>4, <3>2
  <2> QED
    BY <2>1, <2>5
<1> QED
  BY <1>1, <1>3, <1>5

LEMMA KeepTyped ==
    ASSUME NEW kept \in Seq(Update), NEW u \in Update
    PROVE  Keep(kept, u) \in Seq(Update)
<1>1. Append(kept, u) \in Seq(Update)
  OBVIOUS
<1> DEFINE k == [i \in DOMAIN kept |-> IF kept[i].id = u.id THEN u ELSE kept[i]]
<1>2. k \in [1..Len(kept) -> Update] /\ Len(kept) \in Nat
  OBVIOUS
<1>3. k \in Seq(Update)
  BY <1>2
<1> QED
  BY <1>1, <1>3 DEF Keep

-----------------------------------------------------------------------------
(* One session, seen from its own state *)

LEMMA ChangesOK ==
    ASSUME NEW o, NEW app, NEW box, NEW rows \in Entries, SessionOK(o, app, box, rows),
           NEW id \in Ids, NEW v, NEW next, next = [rows EXCEPT ![id] = v],
           NEW p, o.at = "none" => p = o,
           o.at # "none" => p = [o EXCEPT !.due = @ \cup {id},
                                          !.since = IF o.at = "live" THEN @ \cup {id} ELSE @]
    PROVE  SessionOK(p, app, box, next)
<1>1. CASE o.at = "none"
  BY <1>1 DEF SessionOK, SessionInv
<1>2. CASE o.at # "none"
  <2>1. /\ p \in Observer /\ p.at = o.at /\ p.listed = o.listed /\ p.sent = o.sent
        /\ p.due = o.due \cup {id} /\ p.building = o.building
        /\ p.since = IF o.at = "live" THEN o.since \cup {id} ELSE o.since
    <3> DEFINE w == IF o.at = "live" THEN o.since \cup {id} ELSE o.since
               d == o.due \cup {id}
    <3>1. w \in SUBSET Ids /\ d \in SUBSET Ids /\ o \in Observer
      BY DEF SessionOK, Observer
    <3>2. p = [[o EXCEPT !.due = d] EXCEPT !.since = w]
      BY <1>2
    <3> HIDE DEF w, d
    <3>3. /\ p \in Observer /\ p.at = o.at /\ p.listed = o.listed /\ p.sent = o.sent
          /\ p.due = d /\ p.building = o.building /\ p.since = w
      BY <3>1, <3>2 DEF Observer
    <3> QED
      BY <3>3 DEF w, d
  <2>2. \A i \in Ids : i \notin p.due => next[i] = rows[i] /\ i \notin o.due /\ i # id
    BY <2>1 DEF Entries
  <2>3. SessionInv(p, app, box, next)
    <3>1. p.since \subseteq Ids
      BY <2>1 DEF Observer
    <3> QED
      BY <1>2, <2>1, <2>2, <3>1 DEF SessionOK, SessionInv
  <2> QED
    BY <2>1, <2>3 DEF SessionOK
<1> QED
  BY <1>1, <1>2

LEMMA ReadsListOK ==
    ASSUME NEW o, NEW app, NEW box, NEW rows \in Entries, SessionOK(o, app, box, rows), o.at = "starting"
    PROVE  SessionOK([o EXCEPT !.listed = rows], app, box, rows)
<1> DEFINE p == [o EXCEPT !.listed = rows]
<1>1. rows \in OrUnset(Entries \cup List) /\ rows \in OrUnset(Entries)
  BY DEF OrUnset
<1>2. /\ p \in Observer /\ p.at = o.at /\ p.listed = rows /\ p.sent = o.sent
      /\ p.due = o.due /\ p.building = o.building /\ p.since = o.since
  BY <1>1 DEF SessionOK, Observer
<1> HIDE DEF p
<1>3. SessionInv(p, app, box, rows)
  BY <1>1, <1>2 DEF SessionOK, SessionInv
<1> QED
  BY <1>2, <1>3 DEF SessionOK, p

LEMMA BuildsOK ==
    ASSUME NEW o, NEW app, NEW box, NEW rows \in Entries, SessionOK(o, app, box, rows),
           NEW id \in Ids, id \in o.due,
           NEW p, p = [o EXCEPT !.building[id] = rows[id], !.due = @ \ {id}]
    PROVE  SessionOK(p, app, box, rows)
<1>1. rows[id] \in Row /\ rows[id] # Unset
  BY Distinct DEF Entries, Row
<1>2. /\ p \in Observer /\ p.at = o.at /\ p.listed = o.listed /\ p.sent = o.sent
      /\ p.due = o.due \ {id} /\ p.building = [o.building EXCEPT ![id] = rows[id]] /\ p.since = o.since
  BY <1>1 DEF SessionOK, Observer
<1>3. \A i \in Ids : p.building[i] = IF i = id THEN rows[id] ELSE o.building[i]
  BY <1>2 DEF SessionOK, Observer
<1>4. o.at # "none"
  BY DEF SessionOK, SessionInv, Unsubscribed
<1>5. o.since \subseteq Ids
  BY DEF SessionOK, Observer
<1>6. SessionInv(p, app, box, rows)
  BY <1>1, <1>2, <1>3, <1>4, <1>5 DEF SessionOK, SessionInv
<1> QED
  BY <1>2, <1>6 DEF SessionOK

LEMMA FinalFun ==
    ASSUME NEW app, NEW box, AppTyped(app)
    PROVE  Final(app, box) = [id \in Ids |-> Final(app, box)[id]]
  BY ShownFun DEF Final

\* A descriptor that tells the app nothing new
LEMMA SkipsOK ==
    ASSUME NEW o, NEW app, NEW box, NEW rows \in Entries, SessionOK(o, app, box, rows),
           NEW id \in Ids, NEW p, p = [o EXCEPT !.building[id] = Unset], o.building[id] # Unset,
           o.building[id] = Gone \/ o.building[id] = o.sent[id]
    PROVE  SessionOK(p, app, box, rows)
<1>1. Unset \in Row
  BY DEF Row
<1>2. /\ p \in Observer /\ p.at = o.at /\ p.listed = o.listed /\ p.sent = o.sent
      /\ p.due = o.due /\ p.building = [o.building EXCEPT ![id] = Unset] /\ p.since = o.since
  BY <1>1 DEF SessionOK, Observer
<1>3. \A i \in Ids : p.building[i] = IF i = id THEN Unset ELSE o.building[i]
  BY <1>2 DEF SessionOK, Observer
<1>4. o.at # "none"
  BY DEF SessionOK, SessionInv, Unsubscribed, Nothing
<1>5. o.since \subseteq Ids
  BY DEF SessionOK, Observer
<1>6. SessionInv(p, app, box, rows)
  BY <1>2, <1>3, <1>4, <1>5 DEF SessionOK, SessionInv
<1> QED
  BY <1>2, <1>6 DEF SessionOK

\* One that waits for the list
LEMMA KeepsOK ==
    ASSUME NEW o, NEW app, NEW box, NEW rows \in Entries, SessionOK(o, app, box, rows),
           NEW id \in Ids, o.building[id] # Unset, o.at # "live", NEW u \in Update,
           NEW p, NEW mark \in {Unset, o.sent[id]},
           p = [[o EXCEPT !.building[id] = Unset] EXCEPT !.kept = Keep(@, u), !.sent[id] = mark]
    PROVE  SessionOK(p, app, box, rows)
<1>1. Unset \in Row /\ mark \in Row /\ o \in Observer
  BY DEF Row, SessionOK, Observer
<1>2. Keep(o.kept, u) \in Seq(Update)
  BY KeepTyped DEF SessionOK, Observer
<1> DEFINE q == [o EXCEPT !.building[id] = Unset]
<1>3. /\ q \in Observer /\ q.at = o.at /\ q.listed = o.listed /\ q.sent = o.sent /\ q.kept = o.kept
      /\ q.due = o.due /\ q.building = [o.building EXCEPT ![id] = Unset] /\ q.since = o.since
  BY <1>1 DEF Observer
<1> DEFINE k == Keep(o.kept, u)
           m == [o.sent EXCEPT ![id] = mark]
<1>4. m \in [Ids -> Row] /\ k \in Seq(Update)
  BY <1>1, <1>2 DEF Observer
<1>5. p = [[q EXCEPT !.kept = k] EXCEPT !.sent = m]
  BY <1>3
<1> HIDE DEF q, k, m
<1>6. /\ p \in Observer /\ p.at = o.at /\ p.listed = o.listed /\ p.sent = m
      /\ p.due = o.due /\ p.building = [o.building EXCEPT ![id] = Unset] /\ p.since = o.since
  BY <1>3, <1>4, <1>5 DEF Observer
<1>7. \A i \in Ids : p.building[i] = IF i = id THEN Unset ELSE o.building[i]
  BY <1>1, <1>6 DEF Observer
<1>8. o.at # "none"
  BY DEF SessionOK, SessionInv, Unsubscribed, Nothing
<1>9. \A i \in Ids : p.sent[i] # Unset => p.sent[i] = o.sent[i]
  BY <1>1, <1>6 DEF Observer, m
<1>10. o.sent = Nothing => p.sent = Nothing
  BY <1>1, <1>6 DEF Observer, m, Nothing
<1>11. SessionInv(p, app, box, rows)
  BY <1>6, <1>7, <1>8, <1>9, <1>10 DEF SessionOK, SessionInv
<1> QED
  BY <1>6, <1>11 DEF SessionOK

\* One that is sent
LEMMA SendsOK ==
    ASSUME NEW o, NEW app, NEW box, NEW rows \in Entries, SessionOK(o, app, box, rows),
           NEW id \in Ids, o.building[id] # Unset, o.at = "live",
           NEW u \in Update, u.id = id, u.value = o.building[id],
           NEW p, p = [[o EXCEPT !.building[id] = Unset] EXCEPT !.sent[id] = o.building[id]]
    PROVE  SessionOK(p, app, box \o <<Live(u)>>, rows)
<1>1. Unset \in Row /\ o.building[id] \in Row /\ o \in Observer /\ AppTyped(app) /\ box \in Seq(Message)
      /\ MailShape(app, box)
  BY DEF Row, SessionOK, SessionInv, Observer
<1> DEFINE b == [o.building EXCEPT ![id] = Unset]
           m == [o.sent EXCEPT ![id] = o.building[id]]
<1>2. b \in [Ids -> Row] /\ m \in [Ids -> Row]
  BY <1>1 DEF Observer
<1>3. p = [[o EXCEPT !.building = b] EXCEPT !.sent = m]
  <2>1. [o EXCEPT !.building = b].sent = o.sent
    BY <1>1 DEF Observer
  <2> QED
    BY <2>1
<1>4. /\ \A i \in Ids : b[i] = IF i = id THEN Unset ELSE o.building[i]
      /\ \A i \in Ids : m[i] = IF i = id THEN o.building[id] ELSE o.sent[i]
  BY <1>1 DEF Observer
<1> HIDE DEF b, m
<1>5. /\ p \in Observer /\ p.at = o.at /\ p.listed = o.listed /\ p.sent = m
      /\ p.due = o.due /\ p.building = b /\ p.since = o.since
  BY <1>1, <1>2, <1>3 DEF Observer
<1> DEFINE f == <<u>>
           c == box \o LiveAll(f)
<1>6. f \in Seq(Update)
  OBVIOUS
<1>7. LiveAll(f) = <<Live(u)>>
  BY DEF LiveAll
<1>8. Shown(Final(app, box), f) = [Final(app, box) EXCEPT ![id] = u.value]
  BY <1>1, FinalFun, ShownFew
<1> HIDE DEF f, c
<1>9. c \in Seq(Message) /\ MailShape(app, c) /\ (ListFirst(box) => ListFirst(c))
      /\ Final(app, c) = [Final(app, box) EXCEPT ![id] = u.value]
  BY <1>1, <1>6, <1>8, FinalPosts DEF c
<1>10. \A i \in Ids : Final(app, c)[i] = IF i = id THEN u.value ELSE Final(app, box)[i]
  BY <1>1, <1>9, FinalFun
<1>11. o.since \subseteq Ids
  BY <1>1 DEF Observer
<1>12. SessionInv(p, app, c, rows)
  <2>1. /\ app.refreshing /\ app.answer = Unset => ListFirst(c)
        /\ \A i \in Ids : p.sent[i] # Unset => Final(app, c)[i] = p.sent[i]
    <3>1. /\ app.refreshing /\ app.answer = Unset => ListFirst(box)
          /\ \A i \in Ids : o.sent[i] # Unset => Final(app, box)[i] = o.sent[i]
      BY DEF SessionOK, SessionInv
    <3>2. ASSUME NEW i \in Ids, p.sent[i] # Unset PROVE Final(app, c)[i] = p.sent[i]
      <4>1. p.sent[i] = IF i = id THEN u.value ELSE o.sent[i]
        BY <1>4, <1>5
      <4> QED
        BY ONLY <1>10, <3>1, <3>2, <4>1
    <3> QED
      BY <1>9, <3>1, <3>2
  <2>2. \A i \in Ids : p.building[i] # Unset /\ i \notin p.due => p.building[i] = rows[i]
    BY <1>4, <1>5 DEF SessionOK, SessionInv
  <2>3. \A i \in p.since : i \notin p.due /\ p.building[i] = Unset => rows[i] \in {Gone, p.sent[i]}
    <3> SUFFICES ASSUME NEW i \in p.since, i \notin p.due, p.building[i] = Unset
                 PROVE  rows[i] \in {Gone, p.sent[i]}
      OBVIOUS
    <3>1. i \in Ids /\ i \in o.since /\ i \notin o.due
      BY <1>5, <1>11
    <3>2. CASE i = id
      BY <1>4, <1>5, <3>1, <3>2 DEF SessionOK, SessionInv
    <3>3. CASE i # id
      BY <1>4, <1>5, <3>1, <3>3 DEF SessionOK, SessionInv
    <3> QED
      BY <3>2, <3>3
  <2> QED
    BY <1>5, <1>9, <2>1, <2>2, <2>3 DEF SessionInv
<1>13. c = box \o <<Live(u)>>
  BY <1>7 DEF c
<1> QED
  BY <1>1, <1>5, <1>9, <1>12, <1>13 DEF SessionOK

\* The list is answered
LEMMA AnswersOK ==
    ASSUME NEW o, NEW app, NEW box, NEW rows \in Entries, SessionOK(o, app, box, rows),
           o.at = "starting", NEW read \in List,
           \A id \in read.entries : id \notin read.removals,
           NEW marks, marks = [id \in Ids |-> IF id \in read.entries THEN read.values[id] ELSE o.sent[id]],
           NEW p, p = [o EXCEPT !.at = "answered", !.listed = read, !.sent = marks]
    PROVE  SessionOK(p, app, box \o <<[kind |-> "list", read |-> read]>>, rows)
<1>1. /\ o \in Observer /\ AppTyped(app) /\ box = <<>> /\ o.sent = Nothing /\ app.refreshing
      /\ app.answer = Unset /\ app.recorded = <<>> /\ MailShape(app, box) /\ o.since = {}
  BY DEF SessionOK, SessionInv
<1>2. /\ marks \in [Ids -> Row] /\ read \in OrUnset(Entries \cup List)
      /\ \A id \in Ids : marks[id] # Unset => id \in read.entries /\ marks[id] = read.values[id]
  BY <1>1 DEF Row, List, Entries, Nothing, OrUnset
<1>3. /\ p \in Observer /\ p.at = "answered" /\ p.sent = marks
      /\ p.due = o.due /\ p.building = o.building /\ p.since = o.since
  BY <1>1, <1>2 DEF Observer
<1> DEFINE m == [kind |-> "list", read |-> read]
           c == box \o <<m>>
<1>4. m \in Message
  BY DEF Message
<1>5. m.kind = "list" /\ m.read = read
  OBVIOUS
<1> HIDE DEF m
<1>6. c = <<m>> /\ c \in Seq(Message) /\ c # <<>> /\ c[1] = m /\ Tail(c) = <<>>
  BY <1>1, <1>4
<1> HIDE DEF c
<1>7. ListFirst(c) /\ AllUpdates(Tail(c)) /\ Updates(Tail(c)) = <<>>
  BY <1>5, <1>6, NoMail DEF ListFirst
<1>8. MailShape(app, c)
  BY <1>1, <1>7 DEF MailShape
<1>9. ASSUME NEW id \in Ids, marks[id] # Unset PROVE Final(app, c)[id] = marks[id]
  <2>1. Final(app, c) = Shown(Caught(app.replica, read), <<>>)
    BY <1>5, <1>6, <1>7 DEF Final
  <2>2. Final(app, c)[id] = Caught(app.replica, read)[id]
    BY <2>1, ShownEmpty
  <2>3. Caught(app.replica, read)[id] = read.values[id]
    BY <1>2, <1>9 DEF Caught
  <2> QED
    BY <1>2, <1>9, <2>2, <2>3
<1>10. SessionInv(p, app, c, rows)
  BY <1>1, <1>3, <1>7, <1>8, <1>9 DEF SessionOK, SessionInv
<1> QED
  BY <1>1, <1>3, <1>6, <1>10 DEF SessionOK, c, m

\* What waited for the list follows it
LEMMA FlushesOK ==
    ASSUME NEW o, NEW app, NEW box, NEW rows \in Entries, SessionOK(o, app, box, rows),
           o.at = "answered", NEW flushed \in Seq(Update),
           NEW p, p = [o EXCEPT !.at = "live", !.listed = Unset, !.kept = <<>>,
                                !.sent = Shown(@, flushed)]
    PROVE  SessionOK(p, app, box \o LiveAll(flushed), rows)
<1>1. /\ o \in Observer /\ AppTyped(app) /\ box \in Seq(Message) /\ MailShape(app, box) /\ o.since = {}
  BY DEF SessionOK, SessionInv
<1> DEFINE m == Shown(o.sent, flushed)
           c == box \o LiveAll(flushed)
<1>2. m \in [Ids -> Row]
  <2>1. Row = {Unset} \cup Values \cup {Gone}
    BY DEF Row
  <2>2. o.sent \in [Ids -> {Unset} \cup Values \cup {Gone}]
    BY <1>1, <2>1 DEF Observer
  <2> QED
    BY <2>1, <2>2, ShownTyped
<1>3. Unset \in OrUnset(Entries \cup List) /\ <<>> \in Seq(Update)
  BY DEF OrUnset
<1>4. p = [o EXCEPT !.at = "live", !.listed = Unset, !.kept = <<>>, !.sent = m]
  OBVIOUS
<1> HIDE DEF m
<1>5. /\ p \in Observer /\ p.at = "live" /\ p.sent = m
      /\ p.due = o.due /\ p.building = o.building /\ p.since = o.since
  BY <1>1, <1>2, <1>3, <1>4 DEF Observer
<1>6. c \in Seq(Message) /\ MailShape(app, c) /\ (ListFirst(box) => ListFirst(c))
      /\ Final(app, c) = Shown(Final(app, box), flushed)
  BY <1>1, FinalPosts
<1> HIDE DEF c
<1>7. ASSUME NEW id \in Ids, m[id] # Unset PROVE Final(app, c)[id] = m[id]
  <2>1. CASE \A i \in 1..Len(flushed) : flushed[i].id # id
    <3>1. m[id] = o.sent[id] /\ Final(app, c)[id] = Final(app, box)[id]
      BY <1>6, <2>1, ShownOf DEF m
    <3> QED
      BY <1>7, <3>1 DEF SessionOK, SessionInv
  <2>2. ASSUME NEW i \in 1..Len(flushed), flushed[i].id = id,
               \A j \in 1..Len(flushed) : flushed[j].id = id => j <= i
        PROVE  Final(app, c)[id] = m[id]
    <3>1. m[id] = flushed[i].value /\ Final(app, c)[id] = flushed[i].value
      BY <1>6, <2>2, LastShows DEF m
    <3> QED
      BY <3>1
  <2>3. \/ \A i \in 1..Len(flushed) : flushed[i].id # id
        \/ \E i \in 1..Len(flushed) :
              flushed[i].id = id /\ \A j \in 1..Len(flushed) : flushed[j].id = id => j <= i
    BY ShownIs
  <2> QED
    BY <2>1, <2>2, <2>3
<1>8. SessionInv(p, app, c, rows)
  BY <1>1, <1>5, <1>6, <1>7 DEF SessionOK, SessionInv
<1> QED
  BY <1>1, <1>5, <1>6, <1>8 DEF SessionOK, c

\* The app takes a message
LEMMA TakesOK ==
    ASSUME NEW o, NEW app, NEW box, NEW rows \in Entries, SessionOK(o, app, box, rows), box # <<>>,
           NEW next, AppTyped(next), next.refreshing = app.refreshing,
           MailShape(next, Tail(box)), Final(next, Tail(box)) = Final(app, box),
           ~(next.refreshing /\ next.answer = Unset)
    PROVE  SessionOK(o, next, Tail(box), rows)
<1>1. o.at \in {"answered", "live"} /\ Tail(box) \in Seq(Message) /\ o \in Observer
  BY DEF SessionOK, SessionInv, Observer
<1>2. SessionInv(o, next, Tail(box), rows)
  BY <1>1 DEF SessionOK, SessionInv
<1> QED
  BY <1>1, <1>2 DEF SessionOK

LEMMA TakesListOK ==
    ASSUME NEW o, NEW app, NEW box, NEW rows \in Entries, SessionOK(o, app, box, rows),
           box # <<>>, Head(box).kind = "list",
           NEW next, next = [app EXCEPT !.answer = Head(box).read]
    PROVE  SessionOK(o, next, Tail(box), rows)
<1>1. /\ AppTyped(app) /\ box \in Seq(Message) /\ Head(box) = box[1] /\ box[1] \in Message
      /\ MailShape(app, box)
  BY DEF SessionOK, SessionInv
<1>2. ListFirst(box) /\ Head(box).read \in List /\ Head(box).read # Unset
  BY <1>1, Distinct DEF ListFirst, Message
<1> DEFINE r == Head(box).read
<1>3. next = [refreshing |-> app.refreshing, answer |-> r, recorded |-> app.recorded,
              replica |-> app.replica, cursor |-> app.cursor, told |-> app.told]
  BY <1>1 DEF AppTyped, AppOf
<1> HIDE DEF r
<1>4. AppTyped(next) /\ next.refreshing = app.refreshing /\ next.replica = app.replica
      /\ next.recorded = app.recorded /\ next.answer = r
  BY <1>1, <1>2, <1>3 DEF AppTyped, AppOf, OrUnset, r
<1>5. MailShape(next, Tail(box)) /\ Final(next, Tail(box)) = Final(app, box)
  BY <1>1, <1>2, <1>4, FinalTakesList DEF r
<1> QED
  BY <1>2, <1>4, <1>5, TakesOK DEF r

LEMMA TakesUpdateOK ==
    ASSUME NEW o, NEW app, NEW box, NEW rows \in Entries, SessionOK(o, app, box, rows),
           box # <<>>, Head(box).kind = "update", NEW u, u = Head(box).update,
           NEW next, NEW c, NEW t,
           app.refreshing =>
              next = [refreshing |-> app.refreshing, answer |-> app.answer,
                      recorded |-> Append(app.recorded, u),
                      replica |-> app.replica, cursor |-> app.cursor, told |-> app.told],
           ~app.refreshing =>
              next = [refreshing |-> app.refreshing, answer |-> app.answer,
                      recorded |-> app.recorded, replica |-> [app.replica EXCEPT ![u.id] = u.value],
                      cursor |-> c, told |-> t]
    PROVE  SessionOK(o, next, Tail(box), rows)
<1>1. /\ AppTyped(app) /\ box \in Seq(Message) /\ Head(box) = box[1] /\ box[1] \in Message
      /\ MailShape(app, box) /\ app.recorded \in Seq(Update)
  BY DEF SessionOK, SessionInv, AppTyped
<1>2. ~ListFirst(box) /\ u \in Update /\ u.id \in Ids /\ u.value \in Values \cup {Gone}
  BY <1>1 DEF ListFirst, Message, Update
<1>3. ~(app.refreshing /\ app.answer = Unset)
  <2>1. o.at \in {"answered", "live"}
    BY DEF SessionOK, SessionInv, Observer
  <2> QED
    BY <1>2, <2>1 DEF SessionOK, SessionInv
<1>4. CASE app.refreshing
  <2> DEFINE r == Append(app.recorded, u)
  <2>1. next = [refreshing |-> app.refreshing, answer |-> app.answer, recorded |-> r,
                replica |-> app.replica, cursor |-> app.cursor, told |-> app.told]
    BY <1>1, <1>4 DEF AppTyped, AppOf
  <2>2. r \in Seq(Update)
    BY <1>1, <1>2
  <2> HIDE DEF r
  <2>3. AppTyped(next) /\ next.refreshing = app.refreshing /\ next.replica = app.replica
        /\ next.recorded = r /\ next.answer = app.answer
    BY <1>1, <2>1, <2>2 DEF AppTyped, AppOf
  <2>4. MailShape(next, Tail(box)) /\ Final(next, Tail(box)) = Final(app, box)
    <3>1. app.refreshing => next.recorded = Append(app.recorded, u) /\ next.replica = app.replica
      BY <2>3 DEF r
    <3> QED
      BY ONLY <1>1, <1>2, <1>4, <2>3, <3>1, box # <<>>, u = Head(box).update, FinalTakes
  <2> QED
    BY <1>3, <2>3, <2>4, TakesOK
<1>5. CASE ~app.refreshing
  <2> DEFINE r == [app.replica EXCEPT ![u.id] = u.value]
  <2>2. r \in Entries
    BY <1>1, <1>2 DEF AppTyped, Entries
  <2>5. next = [refreshing |-> app.refreshing, answer |-> app.answer, recorded |-> app.recorded,
                replica |-> r, cursor |-> c, told |-> t]
    BY <1>5
  <2> HIDE DEF r
  <2>6. AppTyped(next) /\ next.refreshing = app.refreshing /\ next.replica = r
        /\ next.recorded = app.recorded /\ next.answer = app.answer
    BY <1>1, <2>2, <2>5 DEF AppTyped, AppOf
  <2>7. MailShape(next, Tail(box)) /\ Final(next, Tail(box)) = Final(app, box)
    <3>1. /\ next.recorded = app.recorded
          /\ next.replica = [app.replica EXCEPT ![u.id] = u.value]
      BY <2>6 DEF r
    <3> QED
      BY ONLY <1>1, <1>2, <1>5, <2>6, <3>1, box # <<>>, u = Head(box).update, FinalTakes
  <2> QED
    BY <1>3, <2>6, <2>7, TakesOK
<1> QED
  BY <1>4, <1>5

LEMMA CompletesOK ==
    ASSUME NEW o, NEW app, NEW box, NEW rows \in Entries, SessionOK(o, app, box, rows),
           app.answer # Unset, NEW c, NEW t, NEW next,
           next = [refreshing |-> FALSE, answer |-> Unset, recorded |-> <<>>,
                   replica |-> Shown(Caught(app.replica, app.answer), app.recorded),
                   cursor |-> c, told |-> t]
    PROVE  SessionOK(o, next, box, rows)
<1>1. /\ AppTyped(app) /\ box \in Seq(Message) /\ MailShape(app, box) /\ o \in Observer
      /\ app.recorded \in Seq(Update) /\ app.answer \in List /\ app.replica \in Entries
  BY DEF SessionOK, SessionInv, AppTyped, OrUnset
<1>2. Caught(app.replica, app.answer) \in Entries
  BY <1>1 DEF Caught, List, Entries
<1>3. next.replica \in Entries
  BY <1>1, <1>2, ShownTyped DEF Entries
<1>4. next.refreshing = FALSE /\ next.answer = Unset /\ next.recorded = <<>> /\ <<>> \in Seq(Update)
      /\ next = AppOf(next)
  BY DEF AppOf
<1>5. AppTyped(next)
  BY <1>3, <1>4 DEF AppTyped, OrUnset
<1>6. MailShape(next, box) /\ Final(next, box) = Final(app, box)
  BY <1>1, <1>4, FinalCompletes
<1>7. o.at \in {"answered", "live"}
  BY <1>1 DEF SessionOK, SessionInv, Observer, MailShape
<1>8. SessionInv(o, next, box, rows)
  BY <1>4, <1>6, <1>7 DEF SessionOK, SessionInv
<1> QED
  BY <1>1, <1>5, <1>8 DEF SessionOK

LEMMA ConnectsOK ==
    ASSUME NEW o, NEW app, NEW box, NEW rows \in Entries, SessionOK(o, app, box, rows), o.at = "none",
           NEW p, p = [o EXCEPT !.at = "starting"], NEW next, next = [app EXCEPT !.refreshing = TRUE]
    PROVE  SessionOK(p, next, box, rows)
<1>1. /\ o \in Observer /\ o = Unsubscribed /\ box = <<>> /\ ~app.refreshing /\ AppTyped(app)
      /\ app.answer = Unset /\ app.recorded = <<>> /\ box \in Seq(Message)
  BY DEF SessionOK, SessionInv, MailShape
<1>2. /\ p \in Observer /\ p.at = "starting" /\ p.sent = Nothing /\ p.building = Nothing
      /\ p.since = {} /\ p.listed = Unset
  BY <1>1 DEF Observer, Unsubscribed
<1>3. next = [refreshing |-> TRUE, answer |-> app.answer, recorded |-> app.recorded,
              replica |-> app.replica, cursor |-> app.cursor, told |-> app.told]
  BY <1>1 DEF AppTyped, AppOf
<1>4. AppTyped(next) /\ next.refreshing /\ next.answer = Unset /\ next.recorded = <<>>
  BY <1>1, <1>3 DEF AppTyped, AppOf
<1>5. MailShape(next, box)
  BY <1>1, <1>4, NoMail DEF MailShape
<1>6. SessionInv(p, next, box, rows)
  BY <1>1, <1>2, <1>4, <1>5 DEF SessionInv, OrUnset, Nothing
<1> QED
  BY <1>1, <1>2, <1>4, <1>6 DEF SessionOK

-----------------------------------------------------------------------------
(* The steps *)

\* A step of one session
LEMMA OneSession ==
    ASSUME DirectoryInv, CollectionInv', truth' = truth, NEW s \in Sessions, NEW o, NEW a, NEW b,
           observers' = [observers EXCEPT ![s] = o], apps' = [apps EXCEPT ![s] = a],
           outbox' = [outbox EXCEPT ![s] = b], SessionOK(o, a, b, truth)
    PROVE  DirectoryInv'
<1>1. /\ observers' = [r \in Sessions |-> observers'[r]]
      /\ outbox' = [r \in Sessions |-> outbox'[r]]
      /\ apps' = [r \in Sessions |-> apps'[r]]
  BY DEF DirectoryInv
<1>2. ASSUME NEW r \in Sessions PROVE SessionOK(observers'[r], apps'[r], outbox'[r], truth)
  <2>1. CASE r = s
    <3>1. observers'[r] = o /\ apps'[r] = a /\ outbox'[r] = b
      BY <2>1 DEF DirectoryInv
    <3> QED
      BY <3>1
  <2>2. CASE r # s
    <3>1. observers'[r] = observers[r] /\ apps'[r] = apps[r] /\ outbox'[r] = outbox[r]
      BY <2>2 DEF DirectoryInv
    <3> QED
      BY <3>1 DEF DirectoryInv
  <2> QED
    BY <2>1, <2>2
<1> QED
  BY <1>1, <1>2 DEF DirectoryInv

LEMMA CollectionStays ==
    ASSUME CollectionInv, UNCHANGED collectionVars PROVE CollectionInv'
  BY DEF collectionVars, CollectionInv, CollectionTypes, Explained

LEMMA Same ==
    ASSUME DirectoryInv, NEW s \in Sessions
    PROVE  /\ observers = [observers EXCEPT ![s] = observers[s]]
           /\ apps = [apps EXCEPT ![s] = apps[s]]
           /\ outbox = [outbox EXCEPT ![s] = outbox[s]]
           /\ SessionOK(observers[s], apps[s], outbox[s], truth) /\ truth \in Entries /\ CollectionInv
           /\ observers[s] \in Observer
  BY DEF DirectoryInv, SessionOK

LEMMA ChangesStep ==
    ASSUME DirectoryInv, NEW id \in Ids, NEW v \in Values \cup {Gone}, Changes(id, v)
    PROVE  DirectoryInv'
<1>1. CollectionInv' /\ truth' \in Entries /\ truth' = [truth EXCEPT ![id] = v]
      /\ apps' = apps /\ outbox' = outbox
  <2>1. CollectionInv'
    BY CollectionStays DEF DirectoryInv, Changes
  <2> QED
    BY <2>1 DEF DirectoryInv, Changes, Entries
<1> DEFINE P(s) == IF Linked(s)
                   THEN [observers[s] EXCEPT
                           !.due = @ \cup {id},
                           !.since = IF observers[s].at = "live" THEN @ \cup {id} ELSE @]
                   ELSE observers[s]
<1>2. observers' = [s \in Sessions |-> P(s)]
  BY DEF Changes
<1>3. ASSUME NEW s \in Sessions PROVE SessionOK(observers'[s], apps'[s], outbox'[s], truth')
  <2>1. /\ observers[s].at = "none" => P(s) = observers[s]
        /\ observers[s].at # "none" =>
              P(s) = [observers[s] EXCEPT !.due = @ \cup {id},
                        !.since = IF observers[s].at = "live" THEN @ \cup {id} ELSE @]
    BY DEF Linked
  <2>2. SessionOK(observers[s], apps[s], outbox[s], truth) /\ truth \in Entries
    BY DEF DirectoryInv
  <2> DEFINE p == P(s)
  <2> HIDE DEF P
  <2>3. SessionOK(p, apps[s], outbox[s], truth')
    BY <1>1, <2>1, <2>2, ChangesOK, ZenonT(40)
  <2> QED
    BY <1>1, <1>2, <2>3
<1> HIDE DEF P
<1>4. observers' = [s \in Sessions |-> observers'[s]]
  BY <1>2
<1> QED
  BY <1>1, <1>3, <1>4 DEF DirectoryInv

LEMMA ReadsListStep ==
    ASSUME DirectoryInv, NEW s \in Sessions, ReadsList(s) PROVE DirectoryInv'
<1> DEFINE o == [observers[s] EXCEPT !.listed = truth]
<1>1. /\ observers' = [observers EXCEPT ![s] = o] /\ truth' = truth /\ UNCHANGED collectionVars
      /\ apps' = [apps EXCEPT ![s] = apps[s]] /\ outbox' = [outbox EXCEPT ![s] = outbox[s]]
      /\ observers[s].at = "starting"
  BY Same DEF ReadsList
<1>2. SessionOK(o, apps[s], outbox[s], truth)
  BY <1>1, Same, ReadsListOK
<1> HIDE DEF o
<1> QED
  BY <1>1, <1>2, Same, CollectionStays, OneSession

LEMMA BuildsStep ==
    ASSUME DirectoryInv, NEW s \in Sessions, NEW id \in Ids, Builds(s, id) PROVE DirectoryInv'
<1> DEFINE o == [observers[s] EXCEPT !.building[id] = truth[id], !.due = @ \ {id}]
<1>1. /\ observers' = [observers EXCEPT ![s] = o] /\ truth' = truth /\ UNCHANGED collectionVars
      /\ apps' = [apps EXCEPT ![s] = apps[s]] /\ outbox' = [outbox EXCEPT ![s] = outbox[s]]
      /\ id \in observers[s].due
  BY Same DEF Builds
<1>2. SessionOK(o, apps[s], outbox[s], truth)
  BY <1>1, Same, BuildsOK
<1> HIDE DEF o
<1> QED
  BY <1>1, <1>2, Same, CollectionStays, OneSession

LEMMA EmitsStep ==
    ASSUME DirectoryInv, NEW s \in Sessions, NEW id \in Ids, Emits(s, id) PROVE DirectoryInv'
<1> DEFINE o == observers[s]
           value == o.building[id]
           built == [o EXCEPT !.building[id] = Unset]
           update == [id |-> id, value |-> value, seq |-> seqs'[id]]
<1>1. /\ value # Unset /\ truth' = truth /\ apps' = [apps EXCEPT ![s] = apps[s]]
      /\ SessionOK(o, apps[s], outbox[s], truth) /\ truth \in Entries
      /\ outbox = [outbox EXCEPT ![s] = outbox[s]]
  BY Same DEF Emits
<1>2. value \in Values \cup {Gone}
  BY <1>1 DEF SessionOK, Observer, Row
<1>3. CASE value = Gone /\ o.sent[id] \in {Unset, Gone}
  <2>1. observers' = [observers EXCEPT ![s] = built] /\ UNCHANGED <<collectionVars, outbox>>
    BY <1>3 DEF Emits
  <2>2. SessionOK(built, apps[s], outbox[s], truth)
    BY <1>1, <1>3, SkipsOK
  <2>3. outbox' = [outbox EXCEPT ![s] = outbox[s]]
    BY <1>1, <2>1
  <2> HIDE DEF built
  <2> QED
    BY <1>1, <2>1, <2>2, <2>3, Same, CollectionStays, OneSession
<1>4. CASE ~(value = Gone /\ o.sent[id] \in {Unset, Gone})
  <2>1. Write([i \in {id} |-> value])
    BY <1>4 DEF Emits
  <2>2. CollectionInv'
    <3> DEFINE w == [i \in {id} |-> value]
    <3>1. w \in [{id} -> Values \cup {Gone}] /\ {id} \in SUBSET Ids
      BY <1>2
    <3> HIDE DEF w
    <3>2. Write(w)
      BY <2>1 DEF w
    <3> QED
      BY <3>1, <3>2, Same, WriteHolds
  <2>3. update \in Update
    BY <1>2, <2>2 DEF CollectionInv, CollectionTypes, Update
  <2>4. CASE value = o.sent[id]
    <3>1. observers' = [observers EXCEPT ![s] = built] /\ UNCHANGED outbox
      BY <1>4, <2>4 DEF Emits
    <3>2. SessionOK(built, apps[s], outbox[s], truth)
      BY <1>1, <2>4, SkipsOK
    <3>3. outbox' = [outbox EXCEPT ![s] = outbox[s]]
      BY <1>1, <3>1
    <3> HIDE DEF built
    <3> QED
      BY <1>1, <2>2, <3>1, <3>2, <3>3, OneSession
  <2>5. CASE value # o.sent[id] /\ o.at # "live"
    <3> DEFINE mark == IF value = Gone THEN Unset ELSE o.sent[id]
               p == [built EXCEPT !.kept = Keep(@, update), !.sent[id] = mark]
    <3>1. observers' = [observers EXCEPT ![s] =
                [built EXCEPT !.kept = Keep(@, update),
                              !.sent[id] = IF value = Gone THEN Unset ELSE @]] /\ UNCHANGED outbox
      BY <1>4, <2>5 DEF Emits
    <3>2. built.sent[id] = o.sent[id]
      BY <1>1 DEF SessionOK, Observer
    <3>3. observers' = [observers EXCEPT ![s] = p]
      BY <3>1, <3>2
    <3>4. mark \in {Unset, o.sent[id]}
      OBVIOUS
    <3> HIDE DEF mark
    <3>5. SessionOK(p, apps[s], outbox[s], truth)
      <4> HIDE DEF update
      <4> QED
        BY <1>1, <2>3, <2>5, <3>4, KeepsOK
    <3>6. outbox' = [outbox EXCEPT ![s] = outbox[s]]
      BY <1>1, <3>1
    <3> HIDE DEF p
    <3> QED
      BY <1>1, <2>2, <3>3, <3>5, <3>6, OneSession
  <2>6. CASE value # o.sent[id] /\ o.at = "live"
    <3> DEFINE p == [built EXCEPT !.sent[id] = value]
               c == outbox[s] \o <<Live(update)>>
    <3>1. observers' = [observers EXCEPT ![s] = p] /\ outbox' = [outbox EXCEPT ![s] = c]
      BY <1>4, <2>6 DEF Emits, Post
    <3>2. SessionOK(p, apps[s], c, truth)
      <4>1. update.id = id /\ update.value = value
        OBVIOUS
      <4> HIDE DEF update
      <4> QED
        BY <1>1, <2>3, <2>6, <4>1, SendsOK
    <3> HIDE DEF p, c
    <3> QED
      BY <1>1, <2>2, <3>1, <3>2, OneSession
  <2> QED
    BY <2>4, <2>5, <2>6
<1> QED
  BY <1>3, <1>4

LEMMA ReadNext ==
    ASSUME CollectionInv', NEW after
    PROVE  (ReadAfter(after) \in List
              /\ \A id \in ReadAfter(after).entries : id \notin ReadAfter(after).removals)'
<1>1. values' \in Entries /\ headSeq' \in Nat
  BY DEF CollectionInv, CollectionTypes
<1> QED
  BY <1>1 DEF ReadAfter, List

LEMMA AnswersStep ==
    ASSUME DirectoryInv, NEW s \in Sessions, Answers(s) PROVE DirectoryInv'
<1> DEFINE o == observers[s]
<1>1. /\ o.at = "starting" /\ o.listed # Unset /\ Write(o.listed) /\ truth' = truth
      /\ apps' = [apps EXCEPT ![s] = apps[s]]
      /\ SessionOK(o, apps[s], outbox[s], truth) /\ truth \in Entries
  BY Same DEF Answers
<1>2. o.listed \in Entries
  BY <1>1 DEF SessionOK, SessionInv, OrUnset
<1>3. CollectionInv'
  <2>1. Ids \in SUBSET Ids /\ o.listed \in [Ids -> Values \cup {Gone}]
    BY <1>2 DEF Entries
  <2> QED
    BY <1>1, <2>1, Same, WriteHolds
<1>8. PICK after \in {NumberOf(apps[s].cursor)} : \E read \in {ReadAfter(after)'} :
         /\ Post(s, <<[kind |-> "list", read |-> read]>>)
         /\ observers' = [observers EXCEPT
                ![s].at = "answered", ![s].listed = read,
                ![s].sent = [id \in Ids |-> IF id \in read.entries THEN read.values[id] ELSE @[id]]]
  BY DEF Answers
<1>4. PICK read \in {ReadAfter(after)'} :
         /\ Post(s, <<[kind |-> "list", read |-> read]>>)
         /\ observers' = [observers EXCEPT
                ![s].at = "answered", ![s].listed = read,
                ![s].sent = [id \in Ids |-> IF id \in read.entries THEN read.values[id] ELSE @[id]]]
  BY <1>8
<1>5. read \in List /\ \A id \in read.entries : id \notin read.removals
  <2>2. read = ReadAfter(after)'
    BY <1>4
  <2>3. (ReadAfter(after) \in List
           /\ \A id \in ReadAfter(after).entries : id \notin ReadAfter(after).removals)'
    BY <1>3, ReadNext
  <2> QED
    BY <2>2, <2>3
<1> DEFINE marks == [id \in Ids |-> IF id \in read.entries THEN read.values[id] ELSE o.sent[id]]
           p == [o EXCEPT !.at = "answered", !.listed = read, !.sent = marks]
           c == outbox[s] \o <<[kind |-> "list", read |-> read]>>
<1>6. observers' = [observers EXCEPT ![s] = p] /\ outbox' = [outbox EXCEPT ![s] = c]
  <2>1. o \in Observer
    BY Same
  <2>2. outbox' = [outbox EXCEPT ![s] = c]
    BY <1>4 DEF Post
  <2>3. observers' = [observers EXCEPT ![s] =
            [observers[s] EXCEPT !.at = "answered", !.listed = read, !.sent =
               [id \in Ids |-> IF id \in read.entries THEN read.values[id] ELSE observers[s].sent[id]]]]
    BY <1>4, <2>1 DEF Observer
  <2> QED
    BY <2>2, <2>3
<1>7. SessionOK(p, apps[s], c, truth)
  <2> HIDE DEF marks
  <2>1. marks = [id \in Ids |-> IF id \in read.entries THEN read.values[id] ELSE o.sent[id]]
    BY DEF marks
  <2> QED
    BY <1>1, <1>5, <2>1, AnswersOK
<1> HIDE DEF p, c
<1> QED
  BY <1>1, <1>3, <1>6, <1>7, OneSession

LEMMA FlushesStep ==
    ASSUME DirectoryInv, NEW s \in Sessions, Flushes(s) PROVE DirectoryInv'
<1> DEFINE o == observers[s]
           flushed == News(o.kept, o.listed)
           p == [o EXCEPT !.at = "live", !.listed = Unset, !.kept = <<>>, !.sent = Shown(@, flushed)]
           c == outbox[s] \o LiveAll(flushed)
<1>1. /\ o.at = "answered" /\ truth' = truth /\ UNCHANGED collectionVars
      /\ apps' = [apps EXCEPT ![s] = apps[s]]
      /\ outbox' = [outbox EXCEPT ![s] = c]
      /\ SessionOK(o, apps[s], outbox[s], truth) /\ truth \in Entries
  BY Same DEF Flushes, Post, LiveAll
<1>2. observers' = [observers EXCEPT ![s] = p]
  BY DEF Flushes
<1>3. flushed \in Seq(Update)
  BY <1>1, NewsTyped DEF SessionOK, Observer
<1> HIDE DEF flushed
<1>4. SessionOK(p, apps[s], c, truth)
  BY <1>1, <1>3, FlushesOK
<1> HIDE DEF p, c
<1> QED
  BY <1>1, <1>2, <1>4, Same, CollectionStays, OneSession

LEMMA TakesListStep ==
    ASSUME DirectoryInv, NEW s \in Sessions, TakesList(s) PROVE DirectoryInv'
<1> DEFINE box == outbox[s]
           next == [apps[s] EXCEPT !.answer = Head(box).read]
           t == Tail(box)
<1>1. /\ box # <<>> /\ Head(box).kind = "list" /\ truth' = truth /\ UNCHANGED collectionVars
      /\ observers' = [observers EXCEPT ![s] = observers[s]]
      /\ outbox' = [outbox EXCEPT ![s] = t] /\ apps' = [apps EXCEPT ![s] = next]
      /\ SessionOK(observers[s], apps[s], box, truth) /\ truth \in Entries
  BY Same DEF TakesList, Takes
<1>2. SessionOK(observers[s], next, t, truth)
  BY <1>1, TakesListOK
<1> HIDE DEF next, t
<1> QED
  BY <1>1, <1>2, Same, CollectionStays, OneSession

LEMMA TakesUpdateStep ==
    ASSUME DirectoryInv, NEW s \in Sessions, TakesUpdate(s) PROVE DirectoryInv'
<1> DEFINE app == apps[s]
           box == outbox[s]
           u == Head(box).update
           t == Tail(box)
<1>1. /\ box # <<>> /\ Head(box).kind = "update" /\ truth' = truth /\ UNCHANGED collectionVars
      /\ observers' = [observers EXCEPT ![s] = observers[s]]
      /\ outbox' = [outbox EXCEPT ![s] = t]
      /\ SessionOK(observers[s], app, box, truth) /\ truth \in Entries
  BY Same DEF TakesUpdate, Takes
<1>2. app = AppOf(app)
  BY <1>1 DEF SessionOK, AppTyped
<1>3. PICK c : c = Noted(app.cursor, u.seq)
  OBVIOUS
<1>4. PICK d : d = Told(app.told, <<u>>)
  OBVIOUS
<1> DEFINE next == IF app.refreshing
                   THEN [refreshing |-> app.refreshing, answer |-> app.answer,
                         recorded |-> Append(app.recorded, u),
                         replica |-> app.replica, cursor |-> app.cursor, told |-> app.told]
                   ELSE [refreshing |-> app.refreshing, answer |-> app.answer,
                         recorded |-> app.recorded, replica |-> [app.replica EXCEPT ![u.id] = u.value],
                         cursor |-> c, told |-> d]
<1>5. apps' = [apps EXCEPT ![s] = next]
  <2>1. CASE app.refreshing
    <3>1. apps' = [apps EXCEPT ![s] = [app EXCEPT !.recorded = Append(app.recorded, u)]]
      BY <2>1 DEF TakesUpdate
    <3> DEFINE r == Append(app.recorded, u)
    <3> HIDE DEF r
    <3>2. [app EXCEPT !.recorded = r]
            = [refreshing |-> app.refreshing, answer |-> app.answer, recorded |-> r,
               replica |-> app.replica, cursor |-> app.cursor, told |-> app.told]
      BY <1>2 DEF AppOf
    <3> QED
      BY <2>1, <3>1, <3>2 DEF r
  <2>2. CASE ~app.refreshing
    <3>1. apps' = [apps EXCEPT ![s] =
             [app EXCEPT !.replica[u.id] = u.value, !.cursor = Noted(@, u.seq), !.told = Told(@, <<u>>)]]
      BY <2>2 DEF TakesUpdate
    <3>2. apps' = [apps EXCEPT ![s] =
             [app EXCEPT !.replica[u.id] = u.value, !.cursor = c, !.told = d]]
      BY <1>2, <1>3, <1>4, <3>1 DEF AppOf
    <3> DEFINE r == [app.replica EXCEPT ![u.id] = u.value]
               x == [app EXCEPT !.replica = r]
               y == [x EXCEPT !.cursor = c]
               z == [y EXCEPT !.told = d]
    <3>3. apps' = [apps EXCEPT ![s] = z]
      BY <3>2
    <3> HIDE DEF r
    <3>4. x = [refreshing |-> app.refreshing, answer |-> app.answer, recorded |-> app.recorded,
               replica |-> r, cursor |-> app.cursor, told |-> app.told]
      BY <1>2 DEF AppOf
    <3> HIDE DEF x
    <3>5. y = [refreshing |-> app.refreshing, answer |-> app.answer, recorded |-> app.recorded,
               replica |-> r, cursor |-> c, told |-> app.told]
      BY <3>4
    <3> HIDE DEF y
    <3>6. z = [refreshing |-> app.refreshing, answer |-> app.answer, recorded |-> app.recorded,
               replica |-> r, cursor |-> c, told |-> d]
      BY <3>5
    <3> HIDE DEF z
    <3> QED
      BY <2>2, <3>3, <3>6 DEF r
  <2> QED
    BY <2>1, <2>2
<1>6. SessionOK(observers[s], next, t, truth)
  BY <1>1, TakesUpdateOK
<1> HIDE DEF next, t
<1> QED
  BY <1>1, <1>5, <1>6, Same, CollectionStays, OneSession

LEMMA CompletesStep ==
    ASSUME DirectoryInv, NEW s \in Sessions, CompletesRefresh(s) PROVE DirectoryInv'
<1> DEFINE app == apps[s]
           c == NotedAll(Placed(app.cursor, app.answer.headSeq), app.recorded)
           t == Told([id \in Ids |-> app.answer.headSeq], app.recorded)
           next == [refreshing |-> FALSE, answer |-> Unset, recorded |-> <<>>,
                    replica |-> Shown(Caught(app.replica, app.answer), app.recorded),
                    cursor |-> c, told |-> t]
<1>1. /\ app.answer # Unset /\ truth' = truth /\ UNCHANGED collectionVars
      /\ observers' = [observers EXCEPT ![s] = observers[s]]
      /\ outbox' = [outbox EXCEPT ![s] = outbox[s]] /\ apps' = [apps EXCEPT ![s] = next]
      /\ SessionOK(observers[s], app, outbox[s], truth) /\ truth \in Entries
  BY Same DEF CompletesRefresh
<1> HIDE DEF c, t
<1>2. SessionOK(observers[s], next, outbox[s], truth)
  BY <1>1, CompletesOK
<1> HIDE DEF next
<1> QED
  BY <1>1, <1>2, Same, CollectionStays, OneSession

LEMMA ConnectsStep ==
    ASSUME DirectoryInv, NEW s \in Sessions, Connects(s) PROVE DirectoryInv'
<1> DEFINE o == [observers[s] EXCEPT !.at = "starting"]
           next == [apps[s] EXCEPT !.refreshing = TRUE]
<1>1. /\ observers[s].at = "none" /\ truth' = truth /\ UNCHANGED collectionVars
      /\ observers' = [observers EXCEPT ![s] = o] /\ apps' = [apps EXCEPT ![s] = next]
      /\ outbox' = [outbox EXCEPT ![s] = outbox[s]]
      /\ SessionOK(observers[s], apps[s], outbox[s], truth) /\ truth \in Entries
  BY Same DEF Connects, Linked
<1>2. SessionOK(o, next, outbox[s], truth)
  BY <1>1, ConnectsOK
<1> HIDE DEF o, next
<1> QED
  BY <1>1, <1>2, Same, CollectionStays, OneSession

LEMMA DisconnectsStep ==
    ASSUME DirectoryInv, NEW s \in Sessions, Disconnects(s) PROVE DirectoryInv'
<1>1. /\ truth' = truth /\ UNCHANGED collectionVars
      /\ observers' = [observers EXCEPT ![s] = Unsubscribed]
      /\ apps' = [apps EXCEPT ![s] = CutOff(apps[s])]
      /\ outbox' = [outbox EXCEPT ![s] = <<>>]
      /\ SessionOK(observers[s], apps[s], outbox[s], truth) /\ truth \in Entries
  BY Same DEF Disconnects
<1>2. SessionOK(Unsubscribed, CutOff(apps[s]), <<>>, truth)
  BY <1>1, CutOffOK DEF SessionOK
<1> QED
  BY <1>1, <1>2, Same, CollectionStays, OneSession

LEMMA RestartStep ==
    ASSUME DirectoryInv, DirectoryRestarts PROVE DirectoryInv'
<1>1. /\ truth' = truth /\ CollectionInv' /\ observers' = [s \in Sessions |-> Unsubscribed]
      /\ outbox' = [s \in Sessions |-> <<>>] /\ apps' = [s \in Sessions |-> CutOff(apps[s])]
  BY ForgetHolds DEF DirectoryRestarts
<1>2. ASSUME NEW s \in Sessions PROVE SessionOK(observers'[s], apps'[s], outbox'[s], truth')
  <2>1. AppTyped(apps[s])
    BY DEF DirectoryInv, SessionOK
  <2>2. SessionOK(Unsubscribed, CutOff(apps[s]), <<>>, truth)
    BY <2>1, CutOffOK
  <2> QED
    BY <1>1, <2>2
<1>3. /\ observers' = [s \in Sessions |-> observers'[s]] /\ outbox' = [s \in Sessions |-> outbox'[s]]
      /\ apps' = [s \in Sessions |-> apps'[s]] /\ truth' \in Entries
  BY <1>1 DEF DirectoryInv
<1> QED
  BY <1>1, <1>2, <1>3 DEF DirectoryInv

LEMMA DirectoryStarts ==
    ASSUME DirectoryInit PROVE DirectoryInv
<1>1. CollectionInv
  BY EmptyHolds DEF DirectoryInit, CollectionInit
<1>2. truth \in Entries
  <2>1. (CHOOSE v \in Values : TRUE) \in Values
    BY DirectoryAssumption
  <2> QED
    BY <2>1 DEF DirectoryInit, Entries
<1>3. SessionOK(Unsubscribed, NoApp, <<>>, truth)
  <2>1. /\ NoApp = AppOf(NoApp) /\ NoApp.refreshing = FALSE /\ NoApp.answer = Unset
        /\ NoApp.recorded = <<>> /\ NoApp.replica = NoEntries
    BY DEF NoApp, AppOf
  <2>2. NoEntries \in Entries /\ <<>> \in Seq(Update)
    BY DEF NoEntries, Entries
  <2>3. AppTyped(NoApp)
    BY <2>1, <2>2 DEF AppTyped, OrUnset
  <2>4. MailShape(NoApp, <<>>)
    BY <2>1, NoMail DEF MailShape
  <2>5. Unsubscribed.at = "none" /\ Unsubscribed.since = {}
    BY DEF Unsubscribed
  <2> QED
    BY <2>1, <2>3, <2>4, <2>5, NoMail, Distinct DEF SessionOK, SessionInv
<1>4. \A s \in Sessions : observers[s] = Unsubscribed /\ apps[s] = NoApp /\ outbox[s] = <<>>
  BY DEF DirectoryInit
<1>5. /\ observers = [s \in Sessions |-> observers[s]] /\ outbox = [s \in Sessions |-> outbox[s]]
      /\ apps = [s \in Sessions |-> apps[s]]
  BY DEF DirectoryInit
<1> QED
  BY <1>1, <1>2, <1>3, <1>4, <1>5 DEF DirectoryInv

\* What a session has sent of a workspace is what its app shows when all messages have arrived.
THEOREM DirectoryInvHolds == DirectorySpec => []DirectoryInv
<1>1. DirectoryInit => DirectoryInv
  BY DirectoryStarts
<1>2. DirectoryInv /\ [DirectoryNext]_directoryVars => DirectoryInv'
  <2> SUFFICES ASSUME DirectoryInv, [DirectoryNext]_directoryVars
               PROVE  DirectoryInv'
    OBVIOUS
  <2>1. ASSUME NEW id \in Ids, NEW v \in Values \cup {Gone}, Changes(id, v) PROVE DirectoryInv'
    BY <2>1, ChangesStep
  <2>2. ASSUME NEW s \in Sessions,
               \/ Connects(s) \/ ReadsList(s) \/ Answers(s) \/ Flushes(s)
               \/ \E id \in Ids : Builds(s, id) \/ Emits(s, id)
               \/ TakesList(s) \/ TakesUpdate(s) \/ CompletesRefresh(s) \/ Disconnects(s)
        PROVE  DirectoryInv'
    <3>1. CASE Connects(s)
      BY <3>1, ConnectsStep
    <3>2. CASE ReadsList(s)
      BY <3>2, ReadsListStep
    <3>3. CASE Answers(s)
      BY <3>3, AnswersStep
    <3>4. CASE Flushes(s)
      BY <3>4, FlushesStep
    <3>5. ASSUME NEW id \in Ids, Builds(s, id) PROVE DirectoryInv'
      BY <3>5, BuildsStep
    <3>6. ASSUME NEW id \in Ids, Emits(s, id) PROVE DirectoryInv'
      BY <3>6, EmitsStep
    <3>7. CASE TakesList(s)
      BY <3>7, TakesListStep
    <3>8. CASE TakesUpdate(s)
      BY <3>8, TakesUpdateStep
    <3>9. CASE CompletesRefresh(s)
      BY <3>9, CompletesStep
    <3>10. CASE Disconnects(s)
      BY <3>10, DisconnectsStep
    <3> QED
      BY <2>2, <3>1, <3>2, <3>3, <3>4, <3>5, <3>6, <3>7, <3>8, <3>9, <3>10
  <2>3. CASE DirectoryRestarts
    BY <2>3, RestartStep
  <2>4. CASE UNCHANGED directoryVars
    <3>1. CollectionInv'
      BY <2>4, CollectionStays DEF directoryVars, DirectoryInv
    <3> QED
      BY <2>4, <3>1 DEF directoryVars, DirectoryInv
  <2> QED
    BY <2>1, <2>2, <2>3, <2>4 DEF DirectoryNext
<1> QED
  BY <1>1, <1>2, PTL DEF DirectorySpec

(***************************************************************************)
(* A workspace that changed after an app's subscription went live is shown *)
(* as it is, once everything about it was built, sent and applied          *)
(* (session.ts, runtime/directory-sync): for any number of workspaces,     *)
(* sessions, changes, lost connections and restarts.                       *)
(***************************************************************************)
THEOREM FollowedChangesShowHolds == DirectorySpec => []FollowedChangesShow
<1>1. DirectoryInv => FollowedChangesShow
  <2> SUFFICES ASSUME DirectoryInv, NEW s \in Sessions, Quiet(s), NEW id \in observers[s].since
               PROVE  truth[id] \in {Gone, apps[s].replica[id]}
    BY DEF FollowedChangesShow
  <2> DEFINE o == observers[s]
  <2>1. /\ SessionOK(o, apps[s], outbox[s], truth) /\ o.at = "live" /\ o.due = {}
        /\ o.building = Nothing /\ outbox[s] = <<>> /\ ~apps[s].refreshing
    BY DEF DirectoryInv, Quiet
  <2>2. id \in Ids /\ o.building[id] = Unset
    BY <2>1 DEF SessionOK, Observer, Nothing
  <2>3. truth[id] \in {Gone, o.sent[id]} /\ truth[id] # Unset
    <3>1. truth[id] \in Values \cup {Gone}
      BY <2>2 DEF DirectoryInv, Entries
    <3> QED
      BY <2>1, <2>2, <3>1, Distinct DEF SessionOK, SessionInv
  <2>4. Final(apps[s], outbox[s])[id] = apps[s].replica[id]
    <3>1. Final(apps[s], outbox[s]) = Shown(apps[s].replica, <<>>)
      BY <2>1, NoMail DEF Final
    <3> QED
      BY <2>2, <3>1, ShownEmpty
  <2>5. o.sent[id] # Unset => Final(apps[s], outbox[s])[id] = o.sent[id]
    BY <2>1, <2>2 DEF SessionOK, SessionInv
  <2> QED
    BY <2>3, <2>4, <2>5
<1> QED
  BY <1>1, DirectoryInvHolds, PTL

\* The collection that the sessions share keeps its promise to each of them.
THEOREM DirectoryCatchesUp == DirectorySpec => []CatchUpIsExact
<1>1. DirectoryInv => CatchUpIsExact
  BY ExplainedIsExact DEF DirectoryInv
<1> QED
  BY <1>1, DirectoryInvHolds, PTL

-----------------------------------------------------------------------------
(***************************************************************************)
(* The timeline of a chat: a daemon that has t, a connection l, a chat c   *)
(***************************************************************************)
Fetched   == [dir: {"none", "tail", "after", "before"}, epoch: Nat, seq: Nat]
TimePages == [kind: {"page"}, request: Fetched, dir: {"none", "tail", "after", "before"},
              reset: BOOLEAN, epoch: Nat, last: Nat, from: Nat, to: Nat,
              older: BOOLEAN, newer: BOOLEAN]
TimeRows  == [kind: {"row"}, epoch: Nat, seq: Nat]
TimeWords == [kind: {"replaced", "acknowledged", "refused"}]
TimeMail  == TimePages \cup TimeRows \cup TimeWords
TimeLinks == [up: BOOLEAN, subscribed: BOOLEAN, asked: Seq(Fetched), down: Seq(TimeMail)]
Times     == [epoch: Nat \ {0}, last: Nat \ {0}]
CatchUps  == [status: {"none", "running", "complete", "error"}, request: Fetched, at: Fetched,
              fallback: BOOLEAN, forcing: BOOLEAN]
Ranges    == [epoch: Nat, from: Nat, to: Nat]
ChatRows  == SUBSET (Nat \X Nat)
Chats == [member: {"none", "asking", "acknowledged", "failed"}, catchUp: CatchUps, owed: Fetched,
          pending: BOOLEAN, error: BOOLEAN, retrying: BOOLEAN, forced: BOOLEAN,
          synced: BOOLEAN, rows: ChatRows, overlay: ChatRows, range: Ranges,
          older: BOOLEAN, newer: BOOLEAN, init: {"none", "tail", "after", "before"},
          replacing: BOOLEAN, scroll: Fetched]

\* What is known up to row n of epoch e is known up to row m of epoch f
UpTo(e, n, f, m) == e < f \/ (e = f /\ n <= m)

IsPage(m)  == m.kind = "page"
IsRow(m)   == m.kind = "row"
IsTold(m)  == IsPage(m) \/ IsRow(m)
PointOf(m) == IF IsRow(m) THEN m.seq ELSE m.last

\* Rows and pages come in the order of what they tell, and tell of nothing to come
ToldInOrder(t, d) ==
    /\ \A i \in 1..Len(d) : IsTold(d[i]) => UpTo(d[i].epoch, PointOf(d[i]), t.epoch, t.last)
    /\ \A i, j \in 1..Len(d) : i < j /\ IsTold(d[i]) /\ IsTold(d[j]) =>
          UpTo(d[i].epoch, PointOf(d[i]), d[j].epoch, PointOf(d[j]))

\* With what follows position k of d, the rows up to row n of epoch e are those of the daemon,
\* or a replacement of the rows is on its way
RestRows(t, d, k, e, n) ==
    /\ e = t.epoch /\ n <= t.last
    /\ \A i \in 1..Len(d) : i > k /\ IsRow(d[i]) =>
          d[i].epoch = e /\ d[i].seq > n /\ d[i].seq <= t.last
    /\ \A s \in Nat : s > n /\ s <= t.last => \E i \in 1..Len(d) : i > k /\ IsRow(d[i]) /\ d[i].seq = s
    /\ \A i, j \in 1..Len(d) : i > k /\ i < j /\ IsRow(d[i]) /\ IsRow(d[j]) => d[i].seq < d[j].seq
Replaced(d, k) == \E i \in 1..Len(d) : i > k /\ d[i].kind = "replaced"
Rest(t, d, k, e, n) == Replaced(d, k) \/ RestRows(t, d, k, e, n)

IsAfter(r)  == r.dir = "after"
IsBefore(r) == r.dir = "before"
RequestOK(r) == r = LatestRows \/ ((IsAfter(r) \/ IsBefore(r)) /\ r.epoch # 0 /\ r.seq # 0)

\* A range that is as long as a page or begins with the first row
Wide(range) == range.from = 1 \/ range.to + 1 >= range.from + PageSize

\* What a page tells of the rows it was asked for
PageTells(p) ==
    /\ RequestOK(p.request) /\ p.dir = p.request.dir /\ p.epoch # 0 /\ p.last # 0
    /\ \/ p.from = 0 /\ p.to = 0 /\ ~p.older
       \/ p.from # 0 /\ p.from <= p.to /\ (p.older <=> p.from > 1)
    /\ p.dir = "tail" \/ p.reset =>
          p.to = p.last /\ ~p.newer /\ Wide(p) /\ p.to + 1 <= p.from + PageSize
    /\ p.dir # "tail" /\ ~p.reset => p.epoch = p.request.epoch
    /\ p.dir = "after" /\ ~p.reset =>
          /\ p.to <= p.last
          /\ p.to # 0 => p.from = p.request.seq + 1 /\ p.to + 1 <= p.from + PageSize
          /\ ~p.newer => p.to = p.last \/ (p.to = 0 /\ p.request.seq >= p.last)
          /\ p.newer => p.to # 0
    /\ p.dir = "before" /\ ~p.reset /\ p.to # 0 => p.to + 1 = p.request.seq
PageIs(p) == PageTells(p) /\ (p.dir = "tail" => ~p.reset)

MailOK(m) == (IsRow(m) => m.epoch # 0 /\ m.seq # 0) /\ (IsPage(m) => PageIs(m))

\* The connection: what is asked and what is on its way are in order
LineOK(t, l) ==
    /\ \A i \in 1..Len(l.asked) : RequestOK(l.asked[i])
    /\ \A i \in 1..Len(l.down) : MailOK(l.down[i])
    /\ ToldInOrder(t, l.down)
    /\ ~l.up => l = NoLink
    /\ ~l.subscribed => \A i \in 1..Len(l.down) : l.down[i].kind \in {"page", "refused"}
    /\ l.subscribed => \A i \in 1..Len(l.down) : l.down[i].kind # "refused"

\* The acknowledgement is on its way, behind pages only
ToAcknowledge(d) ==
    \E i \in 1..Len(d) : /\ d[i].kind = "acknowledged"
                         /\ \A j \in 1..i : d[j].kind \in {"page", "acknowledged"}

\* Behind a page come the rows after it, unless it was sent before the chat was followed
PagesOK(t, l, c) ==
    \A j \in 1..Len(l.down) : IsPage(l.down[j]) =>
        \/ Rest(t, l.down, j, l.down[j].epoch, l.down[j].last)
        \/ /\ c.member # "acknowledged"
           /\ \A i \in 1..j : l.down[i].kind # "acknowledged"

\* The membership of the chat, and what waits for it
MemberOK(t, l, c) ==
    /\ c.member = "none" => ~l.up
    /\ ~l.up => c.member = "none"
    /\ c.member = "acknowledged" =>
          /\ l.subscribed
          /\ c.catchUp.status # "none"
    /\ c.member # "acknowledged" =>
          /\ l.subscribed => ToAcknowledge(l.down)
          /\ c.catchUp = NoCatchUp /\ ~c.replacing
          /\ \A r \in InFlight(l) : IsBefore(r)
    /\ c.member = "none" => c.scroll = NoRequest
    /\ c.owed = NoRequest
    /\ c.scroll = NoRequest \/ (RequestOK(c.scroll) /\ IsBefore(c.scroll))
    /\ c.catchUp.status = "error" => c.error

\* The latest request of the rows after a row: nothing of the kind is asked behind it
Bound(c) == IF c.catchUp.status = "running" THEN c.catchUp.at ELSE c.catchUp.request
NoneBehind(l, b) ==
    /\ \A i, j \in 1..Len(l.asked) : i < j /\ l.asked[i] = b => ~IsAfter(l.asked[j])
    /\ \A i \in 1..Len(l.down) : IsPage(l.down[i]) /\ l.down[i].request = b =>
          /\ \A j \in 1..Len(l.down) : i < j /\ IsPage(l.down[j]) => ~IsAfter(l.down[j].request)
          /\ \A j \in 1..Len(l.asked) : ~IsAfter(l.asked[j])
NoAfter(l)      == \A r \in InFlight(l) : ~IsAfter(r)
AfterUpTo(l, e, n) == \A r \in InFlight(l) : IsAfter(r) => UpTo(r.epoch, r.seq, e, n)
LastAfter(l, b) == NoneBehind(l, b) /\ AfterUpTo(l, b.epoch, b.seq)

\* A catch-up waits for the last of the rows it may ask for
CatchUpOK(l, c) ==
    /\ c.catchUp.status \in {"none", "complete"} => NoAfter(l)
    /\ c.catchUp.status \in {"running", "error"} =>
          /\ RequestOK(Bound(c)) /\ ~IsBefore(Bound(c))
          /\ IF IsAfter(Bound(c)) THEN LastAfter(l, Bound(c)) ELSE NoAfter(l)

\* What is known up to row n of epoch e is told again by whatever comes
KnownOK(t, l, e, n) ==
    /\ UpTo(e, n, t.epoch, t.last)
    /\ \A i \in 1..Len(l.down) : IsTold(l.down[i]) => UpTo(e, n, l.down[i].epoch, PointOf(l.down[i]))

\* The rows shown are one range
RangeOK(c) ==
    /\ c.overlay = {} /\ c.rows = Rows(c.range)
    /\ c.range.epoch # 0 /\ c.range.from # 0 /\ c.range.from <= c.range.to
    /\ Wide(c.range) /\ (c.range.from = 1 \/ c.older)

\* A chat that is synchronized: its range, and a catch-up that begins within it
SyncedOK(t, l, c) ==
    /\ RangeOK(c)
    /\ KnownOK(t, l, c.range.epoch, c.range.to)
    /\ AfterUpTo(l, c.range.epoch, c.range.to)
    /\ c.catchUp.status \in {"running", "error"} =>
          /\ RequestOK(c.catchUp.request) /\ IsAfter(c.catchUp.request)
          /\ UpTo(c.catchUp.request.epoch, c.catchUp.request.seq, c.range.epoch, c.range.to)
    /\ c.catchUp.status = "running" =>
          /\ IsAfter(c.catchUp.at) =>
                UpTo(c.catchUp.at.epoch, c.catchUp.at.seq, c.range.epoch, c.range.to)
          /\ IF c.catchUp.forcing THEN c.catchUp.at = LatestRows ELSE IsAfter(c.catchUp.at)

\* A complete catch-up, what comes and a fetch after a replacement leave nothing out
CompleteOK(t, l, c) ==
    c.catchUp.status = "complete" =>
        /\ c.synced /\ ~c.newer
        /\ c.replacing \/ Rest(t, l.down, 0, c.range.epoch, c.range.to)

\* A row of a chat that is not synchronized will be told again
EarlyOK(t, l, r) == r = <<r[1], r[2]>> /\ r[1] # 0 /\ r[2] # 0 /\ KnownOK(t, l, r[1], r[2])

\* A chat that is not synchronized: nothing, or the first row from the cache
FreshOK(t, l, c) ==
    /\ \/ c.range = NoRange /\ c.rows = {}
       \/ c.range = Span(1, 1, 1) /\ <<1, 1>> \in c.rows /\ \A r \in c.rows : r[1] = 1
    /\ \A r \in c.rows \cup c.overlay : EarlyOK(t, l, r)
    /\ ~c.older /\ c.scroll = NoRequest
    /\ c.catchUp.status \in {"none", "running"}
    /\ \A r \in InFlight(l) : r = LatestRows \/ r = ResumeRequest(c)
    /\ c.member # "acknowledged" => InFlight(l) = {}
    /\ c.catchUp.status = "running" =>
          /\ c.catchUp.request = ResumeRequest(c)
          /\ c.catchUp.fallback = IsAfter(c.catchUp.request)
          /\ c.init # "none"
          /\ IF c.catchUp.forcing
             THEN c.catchUp.at = LatestRows /\ c.forced /\ IsAfter(c.catchUp.request)
             ELSE c.catchUp.at = c.catchUp.request
    /\ c.forced => c.catchUp.status = "running" /\ c.catchUp.forcing

\* What is awaited is asked for or on its way
Awaited(l, c) ==
    /\ c.catchUp.status = "running" => c.catchUp.at \in InFlight(l)
    /\ c.replacing => LatestRows \in InFlight(l)

(***************************************************************************)
(* The inductive invariant, of any timeline, connection and chat: but for  *)
(* the rows that a failed request leaves out for good (missed), what the   *)
(* chat shows, what it waits for and what is on its way make up the rows   *)
(***************************************************************************)
TimelineAt(t, l, c) ==
    /\ t \in Times /\ l \in TimeLinks /\ c \in Chats
    /\ LineOK(t, l) /\ MemberOK(t, l, c) /\ PagesOK(t, l, c) /\ CatchUpOK(l, c)
    /\ CompleteOK(t, l, c)
    /\ c.synced => SyncedOK(t, l, c)
    /\ ~c.synced => FreshOK(t, l, c)

TimelineInv == missed \/ (TimelineAt(timeline, link, chat) /\ Awaited(link, chat))

\* A page holds at least one row
LEMMA PageSizeIs == PageSize \in Nat \ {0}
BY TimelineAssumption

\* A request is in flight when it is asked or its page is on the way
LEMMA InFlightIs ==
    ASSUME NEW l \in TimeLinks, NEW r
    PROVE  r \in InFlight(l) <=>
             \/ \E i \in 1..Len(l.asked) : l.asked[i] = r
             \/ \E i \in 1..Len(l.down) : IsPage(l.down[i]) /\ l.down[i].request = r
<1>1. /\ l.asked \in Seq(Fetched) /\ l.down \in Seq(TimeMail)
      /\ DOMAIN l.asked = 1..Len(l.asked) /\ DOMAIN l.down = 1..Len(l.down)
  BY DEF TimeLinks
<1> QED
  BY <1>1 DEF InFlight, ToSet, IsPage

\* What is known is ordered: by the epoch, then by the row
LEMMA UpToSteps ==
    ASSUME NEW e \in Nat, NEW n \in Nat, NEW f \in Nat, NEW m \in Nat, NEW g \in Nat, NEW k \in Nat
    PROVE  /\ UpTo(e, n, e, n)
           /\ UpTo(e, n, f, m) /\ UpTo(f, m, g, k) => UpTo(e, n, g, k)
           /\ UpTo(e, n, f, m) /\ UpTo(f, m, e, n) => e = f /\ n = m
BY DEF UpTo

\* What the daemon sends is a page, a row, or one of three words
LEMMA MailIs ==
    ASSUME NEW m \in TimeMail
    PROVE  /\ IsPage(m) => m \in TimePages
           /\ IsRow(m) => m \in TimeRows /\ ~IsPage(m)
           /\ ~IsTold(m) => m.kind \in {"replaced", "acknowledged", "refused"}
           /\ m.kind \in {"replaced", "acknowledged", "refused"} => ~IsTold(m)
           /\ IsTold(m) => m.epoch \in Nat /\ PointOf(m) \in Nat
BY DEF TimeMail, TimePages, TimeRows, TimeWords, IsPage, IsRow, IsTold, PointOf

\* Rows and replacements: what the rows that the daemon has can be told from
Counts(m) == m.kind \in {"row", "replaced"}

\* The messages of d that are left in e, at the positions that f gives
Leaves(e, d, f) ==
    /\ f \in [1..Len(e) -> 1..Len(d)]
    /\ \A i, j \in 1..Len(e) : i < j => f[i] < f[j]
    /\ \A i \in 1..Len(e) : e[i] = d[f[i]]

\* When nothing that counts is taken out of the line, the rows to come stay the same
LEMMA RestLeft ==
    ASSUME NEW S, NEW T, NEW d \in Seq(S), NEW e \in Seq(S), NEW f, Leaves(e, d, f),
           NEW t, NEW k \in Nat, NEW m \in Nat, NEW x, NEW n \in Nat, t \in Times,
           \A j \in 1..Len(e) : j > m => f[j] > k,
           \A j \in 1..Len(d) : j > k /\ Counts(d[j]) =>
              \E i \in 1..Len(e) : i > m /\ f[i] = j,
           Rest(t, d, k, x, n)
    PROVE  Rest(t, e, m, x, n)
<1>1. \A i \in 1..Len(e) : f[i] \in 1..Len(d) /\ e[i] = d[f[i]]
  BY DEF Leaves
<1>2. CASE Replaced(d, k)
  <2>1. PICK j \in 1..Len(d) : j > k /\ d[j].kind = "replaced"
    BY <1>2 DEF Replaced
  <2>2. PICK i \in 1..Len(e) : i > m /\ f[i] = j
    BY <2>1 DEF Counts
  <2> QED
    BY <1>1, <2>1, <2>2 DEF Replaced, Rest
<1>3. CASE RestRows(t, d, k, x, n)
  <2>1. x = t.epoch /\ n <= t.last
    BY <1>3 DEF RestRows
  <2>2. \A i \in 1..Len(e) : i > m /\ IsRow(e[i]) =>
          e[i].epoch = x /\ e[i].seq > n /\ e[i].seq <= t.last
    BY <1>1, <1>3, SMTT(30) DEF RestRows
  <2>3. ASSUME NEW s \in Nat, s > n, s <= t.last
        PROVE  \E i \in 1..Len(e) : i > m /\ IsRow(e[i]) /\ e[i].seq = s
    <3>1. PICK j \in 1..Len(d) : j > k /\ IsRow(d[j]) /\ d[j].seq = s
      BY <1>3, <2>3 DEF RestRows
    <3>2. Counts(d[j])
      BY <3>1 DEF IsRow, Counts
    <3>3. PICK i \in 1..Len(e) : i > m /\ f[i] = j
      BY <3>1, <3>2
    <3> QED
      BY <1>1, <3>1, <3>3
  <2>4. ASSUME NEW i \in 1..Len(e), NEW j \in 1..Len(e), i > m, i < j, IsRow(e[i]), IsRow(e[j])
        PROVE  e[i].seq < e[j].seq
    <3>1. f[i] \in 1..Len(d) /\ f[j] \in 1..Len(d) /\ f[i] < f[j] /\ f[i] > k
      BY <1>1, <2>4 DEF Leaves
    <3> QED
      BY <1>1, <1>3, <2>4, <3>1 DEF RestRows
  <2> QED
    BY <2>1, <2>2, <2>3, <2>4 DEF RestRows, Rest
<1> QED
  BY <1>2, <1>3 DEF Rest

Fewer(l, m, f, g) ==
    /\ m.up = l.up /\ m.subscribed = l.subscribed
    /\ Leaves(m.asked, l.asked, f) /\ Leaves(m.down, l.down, g)

\* A line with less on it, in the same order, is as good as the line it came from
LEMMA FewerIsFine ==
    ASSUME NEW l \in TimeLinks, NEW m \in TimeLinks, NEW f, NEW g, Fewer(l, m, f, g),
           NEW t \in Times, LineOK(t, l)
    PROVE  /\ l.up => LineOK(t, m)
           /\ InFlight(m) \subseteq InFlight(l)
           /\ \A b : NoneBehind(l, b) => NoneBehind(m, b)
           /\ \A e, n : KnownOK(t, l, e, n) => KnownOK(t, m, e, n)
<1>1. /\ \A i \in 1..Len(m.asked) : f[i] \in 1..Len(l.asked) /\ m.asked[i] = l.asked[f[i]]
      /\ \A i \in 1..Len(m.down) : g[i] \in 1..Len(l.down) /\ m.down[i] = l.down[g[i]]
      /\ \A i, j \in 1..Len(m.asked) : i < j => f[i] < f[j]
      /\ \A i, j \in 1..Len(m.down) : i < j => g[i] < g[j]
  BY DEF Fewer, Leaves
<1>2. m.up = l.up /\ m.subscribed = l.subscribed
  BY DEF Fewer
<1>3. ASSUME l.up PROVE LineOK(t, m)
  <2>1. ToldInOrder(t, m.down)
    <3>1. ASSUME NEW i \in 1..Len(m.down), IsTold(m.down[i])
          PROVE  UpTo(m.down[i].epoch, PointOf(m.down[i]), t.epoch, t.last)
      <4>1. g[i] \in 1..Len(l.down) /\ m.down[i] = l.down[g[i]]
        BY <1>1
      <4> QED
        BY <3>1, <4>1 DEF ToldInOrder, LineOK
    <3>2. ASSUME NEW i \in 1..Len(m.down), NEW j \in 1..Len(m.down), i < j,
                 IsTold(m.down[i]), IsTold(m.down[j])
          PROVE  UpTo(m.down[i].epoch, PointOf(m.down[i]), m.down[j].epoch, PointOf(m.down[j]))
      <4>1. /\ g[i] \in 1..Len(l.down) /\ m.down[i] = l.down[g[i]]
            /\ g[j] \in 1..Len(l.down) /\ m.down[j] = l.down[g[j]] /\ g[i] < g[j]
        BY <1>1, <3>2
      <4> QED
        BY <3>2, <4>1 DEF ToldInOrder, LineOK
    <3> QED
      BY <3>1, <3>2 DEF ToldInOrder
  <2> QED
    BY <1>1, <1>2, <1>3, <2>1 DEF LineOK
<1>4. ASSUME NEW r \in InFlight(m) PROVE r \in InFlight(l)
  <2>1. CASE \E i \in 1..Len(m.asked) : m.asked[i] = r
    <3>1. \E i \in 1..Len(l.asked) : l.asked[i] = r
      BY <1>1, <2>1
    <3> QED
      BY <3>1, InFlightIs
  <2>2. CASE \E i \in 1..Len(m.down) : IsPage(m.down[i]) /\ m.down[i].request = r
    <3>1. \E i \in 1..Len(l.down) : IsPage(l.down[i]) /\ l.down[i].request = r
      BY <1>1, <2>2
    <3> QED
      BY <3>1, InFlightIs
  <2> QED
    BY <2>1, <2>2, InFlightIs
<1>5. ASSUME NEW b, NoneBehind(l, b) PROVE NoneBehind(m, b)
  <2>1. ASSUME NEW i \in 1..Len(m.asked), NEW j \in 1..Len(m.asked), i < j, m.asked[i] = b
        PROVE  ~IsAfter(m.asked[j])
    <3>1. /\ f[i] \in 1..Len(l.asked) /\ m.asked[i] = l.asked[f[i]]
          /\ f[j] \in 1..Len(l.asked) /\ m.asked[j] = l.asked[f[j]] /\ f[i] < f[j]
      BY <1>1, <2>1
    <3> QED
      BY <1>5, <2>1, <3>1 DEF NoneBehind
  <2>2. ASSUME NEW i \in 1..Len(m.down), IsPage(m.down[i]), m.down[i].request = b
        PROVE  /\ \A j \in 1..Len(m.down) : i < j /\ IsPage(m.down[j]) => ~IsAfter(m.down[j].request)
               /\ \A j \in 1..Len(m.asked) : ~IsAfter(m.asked[j])
    <3>1. g[i] \in 1..Len(l.down) /\ m.down[i] = l.down[g[i]]
      BY <1>1
    <3>2. /\ \A j \in 1..Len(l.down) : g[i] < j /\ IsPage(l.down[j]) => ~IsAfter(l.down[j].request)
          /\ \A j \in 1..Len(l.asked) : ~IsAfter(l.asked[j])
      BY <1>5, <2>2, <3>1 DEF NoneBehind
    <3>3. ASSUME NEW j \in 1..Len(m.down), i < j, IsPage(m.down[j]) PROVE ~IsAfter(m.down[j].request)
      <4>1. g[j] \in 1..Len(l.down) /\ m.down[j] = l.down[g[j]] /\ g[i] < g[j]
        BY <1>1, <3>3
      <4> QED
        BY <3>2, <3>3, <4>1
    <3>4. \A j \in 1..Len(m.asked) : ~IsAfter(m.asked[j])
      BY <1>1, <3>2
    <3> QED
      BY <3>3, <3>4
  <2> QED
    BY <2>1, <2>2 DEF NoneBehind
<1>6. ASSUME NEW e, NEW n, KnownOK(t, l, e, n) PROVE KnownOK(t, m, e, n)
  BY <1>1, <1>6 DEF KnownOK
<1> QED
  BY <1>3, <1>4, <1>5, <1>6

\* Taking the head off keeps the order of the others
LEMMA TailLeaves ==
    ASSUME NEW S, NEW d \in Seq(S), d # <<>>
    PROVE  /\ Tail(d) \in Seq(S) /\ Len(Tail(d)) = Len(d) - 1 /\ Len(d) \in Nat
           /\ Leaves(Tail(d), d, [i \in 1..Len(Tail(d)) |-> i + 1])
<1>1. /\ Tail(d) \in Seq(S) /\ Len(Tail(d)) = Len(d) - 1 /\ Len(d) \in Nat
      /\ \A i \in 1..Len(Tail(d)) : Tail(d)[i] = d[i + 1] /\ i + 1 \in 1..Len(d)
  BY TailIs
<1> QED
  BY <1>1 DEF Leaves

\* Taking nothing off keeps the order
LEMMA AllLeaves ==
    ASSUME NEW S, NEW d \in Seq(S)
    PROVE  Leaves(d, d, [i \in 1..Len(d) |-> i])
BY DEF Leaves

\* Taking one off keeps the order of the others
LEMMA RemoveLeaves ==
    ASSUME NEW S, NEW d \in Seq(S), NEW k \in 1..Len(d)
    PROVE  /\ RemoveAt(d, k) \in Seq(S) /\ Len(RemoveAt(d, k)) = Len(d) - 1 /\ Len(d) \in Nat
           /\ Leaves(RemoveAt(d, k), d,
                     [i \in 1..Len(RemoveAt(d, k)) |-> IF i < k THEN i ELSE i + 1])
<1> DEFINE a == SubSeq(d, 1, k - 1)
           b == SubSeq(d, k + 1, Len(d))
<1>1. Len(d) \in Nat /\ k \in Nat /\ 1 <= k /\ k <= Len(d)
  OBVIOUS
<1>2. a \in Seq(S) /\ Len(a) = k - 1 /\ \A i \in 1..k - 1 : a[i] = d[i]
  BY <1>1
<1>3. b \in Seq(S) /\ Len(b) = Len(d) - k /\ \A i \in 1..Len(d) - k : b[i] = d[k + i]
  BY <1>1
<1>4. /\ a \o b \in Seq(S) /\ Len(a \o b) = Len(a) + Len(b)
      /\ \A i \in 1..Len(a) : (a \o b)[i] = a[i]
      /\ \A i \in 1..Len(b) : (a \o b)[Len(a) + i] = b[i]
  <2>1. a \in Seq(S) /\ b \in Seq(S)
    BY <1>2, <1>3
  <2> HIDE DEF a, b
  <2> QED
    BY <2>1, ConcatIs
<1> DEFINE u == RemoveAt(d, k)
           f == [i \in 1..Len(u) |-> IF i < k THEN i ELSE i + 1]
<1>5. u = a \o b
  BY DEF RemoveAt
<1> HIDE DEF a, b, u
<1>6. u \in Seq(S) /\ Len(u) = Len(d) - 1
  <2>1. Len(a) = k - 1 /\ Len(b) = Len(d) - k /\ u \in Seq(S) /\ Len(u) = Len(a) + Len(b)
    BY <1>2, <1>3, <1>4, <1>5, Zenon
  <2> QED
    BY <1>1, <2>1
<1>7. ASSUME NEW i \in 1..Len(u)
      PROVE  u[i] = d[IF i < k THEN i ELSE i + 1] /\ (IF i < k THEN i ELSE i + 1) \in 1..Len(d)
  <2>1. i \in Nat /\ 1 <= i /\ i <= Len(d) - 1
    BY <1>1, <1>6
  <2>2. CASE i < k
    <3>1. i \in 1..k - 1 /\ i \in 1..Len(a) /\ i \in 1..Len(d)
      BY <1>1, <1>2, <2>1, <2>2
    <3>2. u[i] = d[i]
      BY <1>2, <1>4, <1>5, <3>1, Zenon
    <3> QED
      BY <2>2, <3>1, <3>2
  <2>3. CASE ~(i < k)
    <3> DEFINE h == i - (k - 1)
    <3>1. h \in 1..Len(b) /\ h \in 1..Len(d) - k /\ k + h = i + 1 /\ Len(a) + h = i
      BY <1>1, <1>2, <1>3, <2>1, <2>3
    <3> HIDE DEF h
    <3>2. u[i] = d[i + 1]
      BY <1>3, <1>4, <1>5, <3>1, Zenon
    <3>3. i + 1 \in 1..Len(d)
      BY <1>1, <2>1
    <3> QED
      BY <2>3, <3>2, <3>3
  <2> QED
    BY <2>2, <2>3
<1>8. Leaves(u, d, f)
  <2>1. f \in [1..Len(u) -> 1..Len(d)]
    BY <1>7
  <2>2. \A i, j \in 1..Len(u) : i < j => f[i] < f[j]
    BY <1>1, <1>6
  <2>3. \A i \in 1..Len(u) : u[i] = d[f[i]]
    BY <1>7
  <2> HIDE DEF f
  <2> QED
    BY <2>1, <2>2, <2>3 DEF Leaves
<1> QED
  BY <1>1, <1>6, <1>8 DEF u

\* Behind what is left only pages are missing
OnlyPages(e, d, g) ==
    \A i \in 1..Len(e), j \in 1..Len(d) :
        j > g[i] /\ ~IsPage(d[j]) => \E h \in 1..Len(e) : g[h] = j

\* The pages that are left still end where the rows behind them begin
LEMMA PagesLeft ==
    ASSUME NEW l \in TimeLinks, NEW m \in TimeLinks, NEW f, NEW g, Fewer(l, m, f, g),
           NEW t \in Times, NEW c, PagesOK(t, l, c), LineOK(t, l),
           OnlyPages(m.down, l.down, g)
    PROVE  PagesOK(t, m, c)
<1>1. /\ \A i \in 1..Len(m.down) : g[i] \in 1..Len(l.down) /\ m.down[i] = l.down[g[i]]
      /\ \A i, j \in 1..Len(m.down) : i < j => g[i] < g[j]
      /\ Leaves(m.down, l.down, g)
  BY DEF Fewer, Leaves
<1>2. l.down \in Seq(TimeMail) /\ m.down \in Seq(TimeMail)
  BY DEF TimeLinks
<1> SUFFICES ASSUME NEW i \in 1..Len(m.down), IsPage(m.down[i])
             PROVE  \/ Rest(t, m.down, i, m.down[i].epoch, m.down[i].last)
                    \/ /\ c.member # "acknowledged"
                       /\ \A h \in 1..i : m.down[h].kind # "acknowledged"
  BY DEF PagesOK
<1> DEFINE p == m.down[i]
<1>3. g[i] \in 1..Len(l.down) /\ p = l.down[g[i]] /\ IsPage(l.down[g[i]])
  BY <1>1
<1>4. CASE Rest(t, l.down, g[i], p.epoch, p.last)
  <2>1. p \in TimePages
    BY <1>2, MailIs
  <2>2. p.last \in Nat
    BY <2>1 DEF TimePages
  <2>3. g[i] \in Nat /\ i \in Nat
    BY <1>3
  <2>4. \A j \in 1..Len(m.down) : j > i => g[j] > g[i]
    BY <1>1
  <2>5. ASSUME NEW j \in 1..Len(l.down), j > g[i], Counts(l.down[j])
        PROVE  \E h \in 1..Len(m.down) : h > i /\ g[h] = j
    <3>1. PICK h \in 1..Len(m.down) : g[h] = j
      BY <2>5 DEF IsPage, Counts, OnlyPages
    <3>2. ~(h < i) /\ h # i
      BY <1>1, <2>3, <2>5, <3>1
    <3> QED
      BY <3>1, <3>2
  <2> HIDE DEF p
  <2>6. Rest(t, m.down, i, p.epoch, p.last)
    <3> DEFINE e == m.down
               d == l.down
               x == p.epoch
               n == p.last
               k == g[i]
    <3>1. /\ d \in Seq(TimeMail) /\ e \in Seq(TimeMail) /\ Leaves(e, d, g) /\ k \in Nat /\ i \in Nat
          /\ n \in Nat /\ (\A j \in 1..Len(e) : j > i => g[j] > k) /\ Rest(t, d, k, x, n)
          /\ \A j \in 1..Len(d) : j > k /\ Counts(d[j]) => \E h \in 1..Len(e) : h > i /\ g[h] = j
      BY <1>1, <1>2, <1>4, <2>2, <2>3, <2>4, <2>5
    <3> HIDE DEF e, d, x, n, k
    <3>2. Rest(t, e, i, x, n)
      BY <3>1, RestLeft
    <3> QED
      BY <3>2 DEF e, x, n
  <2> QED
    BY <2>6 DEF p
<1>5. CASE /\ c.member # "acknowledged"
           /\ \A h \in 1..g[i] : l.down[h].kind # "acknowledged"
  <2> SUFFICES ASSUME NEW h \in 1..i PROVE m.down[h].kind # "acknowledged"
    BY <1>5
  <2>1. h \in 1..Len(m.down) /\ (h < i \/ h = i)
    OBVIOUS
  <2>2. g[h] \in 1..g[i] /\ m.down[h] = l.down[g[h]]
    BY <1>1, <1>3, <2>1
  <2> QED
    BY <1>5, <2>2
<1> QED
  BY <1>3, <1>4, <1>5 DEF PagesOK

\* The first row on the line is the one after those known, unless a replacement follows
LEMMA RestAfterRow ==
    ASSUME NEW d \in Seq(TimeMail), d # <<>>, NEW t \in Times, NEW e, NEW n \in Nat,
           IsRow(d[1]), Rest(t, d, 0, e, n)
    PROVE  \/ Replaced(d, 1)
           \/ d[1].epoch = e /\ d[1].seq = n + 1 /\ Rest(t, d, 1, e, n + 1)
<1>1. Len(d) \in Nat /\ 1 \in 1..Len(d) /\ d[1] \in TimeMail
  OBVIOUS
<1>2. d[1].seq \in Nat /\ d[1].kind = "row"
  BY <1>1, MailIs DEF TimeRows, IsRow
<1>3. CASE Replaced(d, 0)
  BY <1>1, <1>2, <1>3 DEF Replaced
<1>4. CASE RestRows(t, d, 0, e, n)
  <2>1. /\ e = t.epoch /\ n <= t.last /\ t.last \in Nat
        /\ d[1].epoch = e /\ d[1].seq > n /\ d[1].seq <= t.last
    BY <1>1, <1>4 DEF RestRows, Times
  <2>2. PICK i \in 1..Len(d) : IsRow(d[i]) /\ d[i].seq = n + 1
    <3>1. n + 1 \in Nat /\ n + 1 > n /\ n + 1 <= t.last
      BY <1>2, <2>1
    <3> QED
      BY <1>4, <3>1 DEF RestRows
  <2>3. i = 1
    <3>1. SUFFICES ASSUME i > 1 PROVE FALSE
      BY <1>1
    <3>2. d[1].seq < d[i].seq
      BY <1>1, <1>4, <2>2, <3>1 DEF RestRows
    <3> QED
      BY <1>2, <2>1, <2>2, <3>2
  <2>4. RestRows(t, d, 1, e, n + 1)
    <3>1. n + 1 <= t.last
      BY <1>2, <2>1
    <3>2. ASSUME NEW j \in 1..Len(d), j > 1, IsRow(d[j])
          PROVE  d[j].epoch = e /\ d[j].seq > n + 1 /\ d[j].seq <= t.last
      <4>1. d[1].seq < d[j].seq /\ d[j].epoch = e /\ d[j].seq <= t.last
        BY <1>1, <1>4, <3>2 DEF RestRows
      <4> QED
        BY <2>2, <2>3, <4>1
    <3>3. ASSUME NEW s \in Nat, s > n + 1, s <= t.last
          PROVE  \E j \in 1..Len(d) : j > 1 /\ IsRow(d[j]) /\ d[j].seq = s
      <4>1. s > n
        BY <3>3
      <4>2. PICK j \in 1..Len(d) : IsRow(d[j]) /\ d[j].seq = s
        BY <1>4, <3>3, <4>1 DEF RestRows
      <4>3. j # 1
        BY <2>2, <2>3, <3>3, <4>2
      <4> QED
        BY <4>2, <4>3
    <3>4. \A a, b \in 1..Len(d) : a > 1 /\ a < b /\ IsRow(d[a]) /\ IsRow(d[b]) => d[a].seq < d[b].seq
      BY <1>4 DEF RestRows
    <3> QED
      BY <2>1, <3>1, <3>2, <3>3, <3>4 DEF RestRows
  <2> QED
    BY <2>1, <2>2, <2>3, <2>4 DEF Rest
<1> QED
  BY <1>3, <1>4 DEF Rest

\* What comes behind the head of the line
LEMMA TailRest ==
    ASSUME NEW d \in Seq(TimeMail), d # <<>>, NEW t \in Times, NEW x, NEW n \in Nat
    PROVE  /\ Rest(t, d, 1, x, n) => Rest(t, Tail(d), 0, x, n)
           /\ Replaced(d, 1) => Replaced(Tail(d), 0)
           /\ ~Counts(d[1]) /\ Rest(t, d, 0, x, n) => Rest(t, Tail(d), 0, x, n)
<1> DEFINE e == Tail(d)
           f == [i \in 1..Len(e) |-> i + 1]
<1>1. e \in Seq(TimeMail) /\ Len(e) = Len(d) - 1 /\ Len(d) \in Nat /\ Leaves(e, d, f)
  BY TailLeaves
<1>2. \A j \in 1..Len(d) : j > 1 => j - 1 \in 1..Len(e) /\ j - 1 > 0 /\ f[j - 1] = j
  BY <1>1
<1>3. \A j \in 1..Len(e) : f[j] > 1 /\ f[j] > 0
  BY <1>1
<1>4. \A i \in 1..Len(e) : e[i] = d[f[i]]
  BY <1>1 DEF Leaves
<1> HIDE DEF e, f
<1>5. ASSUME Rest(t, d, 1, x, n) PROVE Rest(t, e, 0, x, n)
  <2>1. \A j \in 1..Len(d) : j > 1 /\ Counts(d[j]) =>
          \E i \in 1..Len(e) : i > 0 /\ f[i] = j
    BY <1>2
  <2> QED
    BY <1>1, <1>3, <1>5, <2>1, RestLeft, SMTT(30)
<1>6. ASSUME Replaced(d, 1) PROVE Replaced(e, 0)
  <2>1. PICK j \in 1..Len(d) : j > 1 /\ d[j].kind = "replaced"
    BY <1>6 DEF Replaced
  <2> QED
    BY <1>2, <1>4, <2>1 DEF Replaced
<1>7. ASSUME ~Counts(d[1]), Rest(t, d, 0, x, n) PROVE Rest(t, e, 0, x, n)
  <2>1. \A j \in 1..Len(d) : j > 0 /\ Counts(d[j]) =>
          \E i \in 1..Len(e) : i > 0 /\ f[i] = j
    <3>1. \A j \in 1..Len(d) : j > 0 /\ Counts(d[j]) => j > 1
      BY <1>7
    <3> QED
      BY <1>2, <3>1
  <2> QED
    BY <1>1, <1>3, <1>7, <2>1, RestLeft
<1> QED
  BY <1>5, <1>6, <1>7 DEF e

\* What the head of the line tells is told, and the others stay as they are
LEMMA HeadGone ==
    ASSUME NEW t \in Times, NEW l \in TimeLinks, NEW c, LineOK(t, l), PagesOK(t, l, c),
           l.down # <<>>,
           NEW m, m = [l EXCEPT !.down = Tail(@)]
    PROVE  /\ l.up /\ m \in TimeLinks /\ m.up /\ m.subscribed = l.subscribed /\ m.asked = l.asked
           /\ m.down = Tail(l.down) /\ Head(l.down) = l.down[1] /\ l.down[1] \in TimeMail
           /\ 1 \in 1..Len(l.down)
           /\ MailOK(l.down[1]) /\ LineOK(t, m)
           /\ InFlight(m) \subseteq InFlight(l)
           /\ \A b : NoneBehind(l, b) => NoneBehind(m, b)
           /\ \A e, n : KnownOK(t, l, e, n) => KnownOK(t, m, e, n)
           /\ IsTold(l.down[1]) => KnownOK(t, m, l.down[1].epoch, PointOf(l.down[1]))
           /\ PagesOK(t, m, c)
<1>1. /\ l.down \in Seq(TimeMail) /\ l.asked \in Seq(Fetched) /\ l.up \in BOOLEAN /\ l.subscribed \in BOOLEAN
  BY DEF TimeLinks
<1>2. /\ Head(l.down) = l.down[1] /\ l.down[1] \in TimeMail /\ 1 \in 1..Len(l.down)
      /\ Tail(l.down) \in Seq(TimeMail) /\ Len(Tail(l.down)) = Len(l.down) - 1 /\ Len(l.down) \in Nat
      /\ \A i \in 1..Len(Tail(l.down)) : Tail(l.down)[i] = l.down[i + 1] /\ i + 1 \in 1..Len(l.down)
  BY <1>1, TailIs
<1>3. /\ m \in TimeLinks /\ m.up = l.up /\ m.subscribed = l.subscribed /\ m.asked = l.asked
      /\ m.down = Tail(l.down)
  BY <1>1, <1>2 DEF TimeLinks
<1>4. l.up
  <2>1. SUFFICES ASSUME ~l.up PROVE FALSE
    OBVIOUS
  <2>2. l = NoLink
    BY <2>1 DEF LineOK
  <2> QED
    BY <2>2 DEF NoLink
<1> DEFINE f == [i \in 1..Len(m.asked) |-> i]
           g == [i \in 1..Len(m.down) |-> i + 1]
<1>5. Fewer(l, m, f, g)
  <2>1. Leaves(m.asked, l.asked, f)
    BY <1>1, <1>3, AllLeaves
  <2>2. Leaves(m.down, l.down, g)
    BY <1>1, <1>3, TailLeaves
  <2> QED
    BY <1>3, <2>1, <2>2 DEF Fewer
<1>6. /\ LineOK(t, m) /\ InFlight(m) \subseteq InFlight(l)
      /\ \A b : NoneBehind(l, b) => NoneBehind(m, b)
      /\ \A e, n : KnownOK(t, l, e, n) => KnownOK(t, m, e, n)
  <2> HIDE DEF f, g
  <2> QED
    BY <1>3, <1>4, <1>5, FewerIsFine
<1>7. IsTold(l.down[1]) => KnownOK(t, m, l.down[1].epoch, PointOf(l.down[1]))
  <2> SUFFICES ASSUME IsTold(l.down[1]) PROVE KnownOK(t, m, l.down[1].epoch, PointOf(l.down[1]))
    OBVIOUS
  <2>1. UpTo(l.down[1].epoch, PointOf(l.down[1]), t.epoch, t.last)
    BY <1>2 DEF LineOK, ToldInOrder
  <2>2. ASSUME NEW i \in 1..Len(m.down), IsTold(m.down[i])
        PROVE  UpTo(l.down[1].epoch, PointOf(l.down[1]), m.down[i].epoch, PointOf(m.down[i]))
    <3>1. i + 1 \in 1..Len(l.down) /\ m.down[i] = l.down[i + 1] /\ 1 < i + 1
      BY <1>2, <1>3
    <3> QED
      BY <1>2, <2>2, <3>1 DEF LineOK, ToldInOrder
  <2> QED
    BY <2>1, <2>2 DEF KnownOK
<1>8. PagesOK(t, m, c)
  <2>1. OnlyPages(m.down, l.down, g)
    <3>1. \A j \in 1..Len(l.down) : j > 1 => j - 1 \in 1..Len(m.down) /\ g[j - 1] = j
      BY <1>2, <1>3
    <3>2. \A i \in 1..Len(m.down) : g[i] > 1
      BY <1>2
    <3>3. ASSUME NEW i \in 1..Len(m.down), NEW j \in 1..Len(l.down), j > g[i] PROVE j > 1
      BY <3>2, <3>3
    <3> QED
      BY <3>1, <3>3 DEF OnlyPages
  <2> HIDE DEF f, g
  <2> QED
    BY <1>3, <1>5, <2>1, PagesLeft
<1> QED
  BY <1>2, <1>3, <1>4, <1>6, <1>7, <1>8 DEF LineOK

\* The page that is received was in flight
LEMMA HeadPage ==
    ASSUME NEW t \in Times, NEW l \in TimeLinks, NEW c, LineOK(t, l), PagesOK(t, l, c),
           l.down # <<>>, IsPage(l.down[1]),
           NEW m, m = [l EXCEPT !.down = Tail(@)]
    PROVE  /\ l.down[1] \in TimePages /\ PageIs(l.down[1])
           /\ l.down[1].request \in InFlight(l)
           /\ NoneBehind(l, l.down[1].request) => NoAfter(m)
           /\ ToAcknowledge(l.down) => ToAcknowledge(m.down)
           /\ c.member = "acknowledged" => Rest(t, m.down, 0, l.down[1].epoch, l.down[1].last)
           /\ \A x, n \in Nat : Rest(t, l.down, 0, x, n) => Rest(t, m.down, 0, x, n)
           /\ \A r \in InFlight(l) : r # l.down[1].request => r \in InFlight(m)
<1>1. /\ m \in TimeLinks /\ m.asked = l.asked /\ m.down = Tail(l.down) /\ l.down[1] \in TimeMail
      /\ 1 \in 1..Len(l.down) /\ MailOK(l.down[1]) /\ l.down \in Seq(TimeMail)
  BY HeadGone DEF TimeLinks
<1>2. /\ Tail(l.down) \in Seq(TimeMail) /\ Len(Tail(l.down)) = Len(l.down) - 1 /\ Len(l.down) \in Nat
      /\ \A i \in 1..Len(Tail(l.down)) : Tail(l.down)[i] = l.down[i + 1] /\ i + 1 \in 1..Len(l.down)
  BY <1>1, TailIs
<1> DEFINE p == l.down[1]
<1>3. p \in TimePages /\ PageIs(p) /\ p.request \in InFlight(l)
  BY <1>1, MailIs, InFlightIs DEF MailOK
<1>4. ASSUME NoneBehind(l, p.request), NEW r \in InFlight(m) PROVE ~IsAfter(r)
  <2>1. CASE \E i \in 1..Len(m.asked) : m.asked[i] = r
    BY <1>1, <1>4, <2>1 DEF NoneBehind
  <2>2. CASE \E i \in 1..Len(m.down) : IsPage(m.down[i]) /\ m.down[i].request = r
    <3>1. PICK i \in 1..Len(m.down) : IsPage(m.down[i]) /\ m.down[i].request = r
      BY <2>2
    <3>2. i + 1 \in 1..Len(l.down) /\ m.down[i] = l.down[i + 1] /\ 1 < i + 1
      BY <1>1, <1>2
    <3> QED
      BY <1>1, <1>4, <3>1, <3>2 DEF NoneBehind
  <2> QED
    BY <1>1, <2>1, <2>2, InFlightIs
<1>5. ASSUME ToAcknowledge(l.down) PROVE ToAcknowledge(m.down)
  <2>1. PICK i \in 1..Len(l.down) : /\ l.down[i].kind = "acknowledged"
                                    /\ \A j \in 1..i : l.down[j].kind \in {"page", "acknowledged"}
    BY <1>5 DEF ToAcknowledge
  <2>2. i # 1
    BY <2>1 DEF IsPage
  <2>3. i - 1 \in 1..Len(m.down) /\ m.down[i - 1] = l.down[i]
    <3>1. i - 1 \in 1..Len(Tail(l.down)) /\ (i - 1) + 1 = i
      BY <1>2, <2>2
    <3> QED
      BY <1>1, <1>2, <3>1
  <2>4. ASSUME NEW j \in 1..i - 1 PROVE m.down[j].kind \in {"page", "acknowledged"}
    <3>1. j + 1 \in 1..i /\ j \in 1..Len(Tail(l.down))
      BY <1>2, <2>2
    <3> QED
      BY <1>1, <1>2, <2>1, <3>1
  <2> QED
    BY <2>1, <2>3, <2>4 DEF ToAcknowledge
<1>6. ASSUME c.member = "acknowledged" PROVE Rest(t, m.down, 0, p.epoch, p.last)
  <2>1. Rest(t, l.down, 1, p.epoch, p.last)
    BY <1>1, <1>6 DEF PagesOK
  <2>2. p.last \in Nat
    BY <1>3 DEF TimePages
  <2> HIDE DEF p
  <2> QED
    BY <1>1, <2>1, <2>2, TailRest
<1>7. ASSUME NEW x \in Nat, NEW n \in Nat, Rest(t, l.down, 0, x, n) PROVE Rest(t, m.down, 0, x, n)
  <2>1. ~Counts(l.down[1])
    BY DEF Counts, IsPage
  <2> QED
    BY <1>1, <1>7, <2>1, TailRest
<1>8. ASSUME NEW r \in InFlight(l), r # p.request PROVE r \in InFlight(m)
  <2>1. CASE \E i \in 1..Len(l.asked) : l.asked[i] = r
    BY <1>1, <2>1, InFlightIs
  <2>2. CASE \E i \in 1..Len(l.down) : IsPage(l.down[i]) /\ l.down[i].request = r
    <3>1. PICK i \in 1..Len(l.down) : IsPage(l.down[i]) /\ l.down[i].request = r
      BY <2>2
    <3>2. i # 1
      BY <1>8, <3>1
    <3>3. i - 1 \in 1..Len(m.down) /\ m.down[i - 1] = l.down[i]
      <4>1. i - 1 \in 1..Len(Tail(l.down)) /\ (i - 1) + 1 = i
        BY <1>2, <3>2
      <4> QED
        BY <1>1, <1>2, <4>1
    <3> QED
      BY <1>1, <3>1, <3>3, InFlightIs
  <2> QED
    BY <2>1, <2>2, InFlightIs
<1> QED
  BY <1>3, <1>4, <1>5, <1>6, <1>7, <1>8 DEF NoAfter

\* A connection that is down has nothing on it
LEMMA UpIfAny ==
    ASSUME NEW t, NEW l, LineOK(t, l), l.asked # <<>> \/ l.down # <<>>
    PROVE  l.up
<1> SUFFICES ASSUME ~l.up PROVE FALSE
  OBVIOUS
<1>1. l = NoLink
  BY DEF LineOK
<1> QED
  BY <1>1 DEF NoLink

\* A request that is not answered leaves everything else in its place
LEMMA Lost ==
    ASSUME NEW t \in Times, NEW l \in TimeLinks, NEW c, LineOK(t, l), PagesOK(t, l, c),
           NEW request, NEW m \in Without(l, request)
    PROVE  /\ l.up /\ m \in TimeLinks /\ m.up /\ m.subscribed = l.subscribed
           /\ LineOK(t, m) /\ PagesOK(t, m, c)
           /\ InFlight(m) \subseteq InFlight(l)
           /\ \A b : NoneBehind(l, b) => NoneBehind(m, b)
           /\ \A e, n : KnownOK(t, l, e, n) => KnownOK(t, m, e, n)
           /\ ToAcknowledge(l.down) => ToAcknowledge(m.down)
           /\ \A x, n \in Nat : Rest(t, l.down, 0, x, n) => Rest(t, m.down, 0, x, n)
           /\ \A r \in InFlight(l) : r # request => r \in InFlight(m)
<1>1. /\ l.down \in Seq(TimeMail) /\ l.asked \in Seq(Fetched) /\ l.up \in BOOLEAN /\ l.subscribed \in BOOLEAN
      /\ DOMAIN l.asked = 1..Len(l.asked) /\ DOMAIN l.down = 1..Len(l.down)
  BY DEF TimeLinks
<1>2. CASE \E k \in 1..Len(l.asked) : l.asked[k] = request /\ m = [l EXCEPT !.asked = RemoveAt(@, k)]
  <2>1. PICK k \in 1..Len(l.asked) : l.asked[k] = request /\ m = [l EXCEPT !.asked = RemoveAt(@, k)]
    BY <1>2
  <2> DEFINE a == RemoveAt(l.asked, k)
             f == [i \in 1..Len(a) |-> IF i < k THEN i ELSE i + 1]
             g == [i \in 1..Len(m.down) |-> i]
  <2>2. a \in Seq(Fetched) /\ Len(a) = Len(l.asked) - 1 /\ Len(l.asked) \in Nat /\ Leaves(a, l.asked, f)
    BY <1>1, RemoveLeaves
  <2>3. /\ m \in TimeLinks /\ m.up = l.up /\ m.subscribed = l.subscribed /\ m.asked = a
        /\ m.down = l.down
    <3> HIDE DEF a
    <3>1. m = [l EXCEPT !.asked = a]
      BY <2>1 DEF a
    <3> QED
      BY <1>1, <2>2, <3>1 DEF TimeLinks
  <2>4. l.asked # <<>>
    BY <1>1, <2>1
  <2>5. Fewer(l, m, f, g)
    <3>1. Leaves(m.down, l.down, g)
      BY <1>1, <2>3, AllLeaves
    <3> HIDE DEF a, f, g
    <3> QED
      BY <2>2, <2>3, <3>1 DEF Fewer
  <2>6. \A i \in 1..Len(a) : f[i] \in 1..Len(l.asked) /\ a[i] = l.asked[f[i]]
    BY <2>2 DEF Leaves
  <2>7. \A i \in 1..Len(l.asked) : i # k => \E j \in 1..Len(a) : f[j] = i
    <3>1. ASSUME NEW i \in 1..Len(l.asked), i < k PROVE \E j \in 1..Len(a) : f[j] = i
      <4>1. i \in 1..Len(a) /\ f[i] = i
        BY <2>2, <3>1
      <4> QED
        BY <4>1
    <3>2. ASSUME NEW i \in 1..Len(l.asked), i > k PROVE \E j \in 1..Len(a) : f[j] = i
      <4>1. i - 1 \in 1..Len(a) /\ f[i - 1] = i
        BY <2>2, <3>2
      <4> QED
        BY <4>1
    <3> QED
      BY <3>1, <3>2
  <2> HIDE DEF a, f, g
  <2>8. l.up
    BY <2>4, UpIfAny
  <2>9. /\ LineOK(t, m) /\ InFlight(m) \subseteq InFlight(l)
        /\ \A b : NoneBehind(l, b) => NoneBehind(m, b)
        /\ \A e, n : KnownOK(t, l, e, n) => KnownOK(t, m, e, n)
    BY <2>3, <2>5, <2>8, FewerIsFine
  <2>10. PagesOK(t, m, c)
    BY <2>3 DEF PagesOK
  <2>11. ASSUME NEW r \in InFlight(l), r # request PROVE r \in InFlight(m)
    <3>1. CASE \E i \in 1..Len(l.asked) : l.asked[i] = r
      <4>1. PICK i \in 1..Len(l.asked) : l.asked[i] = r
        BY <3>1
      <4>2. i # k
        BY <2>1, <2>11, <4>1
      <4>3. PICK j \in 1..Len(a) : f[j] = i
        BY <2>7, <4>2
      <4> QED
        BY <2>3, <2>6, <4>1, <4>3, InFlightIs
    <3>2. CASE \E i \in 1..Len(l.down) : IsPage(l.down[i]) /\ l.down[i].request = r
      BY <2>3, <3>2, InFlightIs
    <3> QED
      BY <3>1, <3>2, InFlightIs
  <2> QED
    BY <2>3, <2>8, <2>9, <2>10, <2>11
<1>3. CASE \E k \in 1..Len(l.down) : /\ IsPage(l.down[k]) /\ l.down[k].request = request
                                     /\ m = [l EXCEPT !.down = RemoveAt(@, k)]
  <2>1. PICK k \in 1..Len(l.down) : /\ IsPage(l.down[k]) /\ l.down[k].request = request
                                    /\ m = [l EXCEPT !.down = RemoveAt(@, k)]
    BY <1>3
  <2> DEFINE a == RemoveAt(l.down, k)
             f == [i \in 1..Len(m.asked) |-> i]
             g == [i \in 1..Len(a) |-> IF i < k THEN i ELSE i + 1]
  <2>2. a \in Seq(TimeMail) /\ Len(a) = Len(l.down) - 1 /\ Len(l.down) \in Nat /\ Leaves(a, l.down, g)
    BY <1>1, RemoveLeaves
  <2>3. /\ m \in TimeLinks /\ m.up = l.up /\ m.subscribed = l.subscribed /\ m.down = a
        /\ m.asked = l.asked
    <3> HIDE DEF a
    <3>1. m = [l EXCEPT !.down = a]
      BY <2>1 DEF a
    <3> QED
      BY <1>1, <2>2, <3>1 DEF TimeLinks
  <2>4. l.down # <<>>
    BY <1>1, <2>1
  <2>5. Fewer(l, m, f, g)
    <3>1. Leaves(m.asked, l.asked, f)
      BY <1>1, <2>3, AllLeaves
    <3> HIDE DEF a, f, g
    <3> QED
      BY <2>2, <2>3, <3>1 DEF Fewer
  <2>6. \A i \in 1..Len(a) : g[i] \in 1..Len(l.down) /\ a[i] = l.down[g[i]]
    BY <2>2 DEF Leaves
  <2>7. \A i \in 1..Len(l.down) : i # k => \E j \in 1..Len(a) : g[j] = i
    <3>1. ASSUME NEW i \in 1..Len(l.down), i < k PROVE \E j \in 1..Len(a) : g[j] = i
      <4>1. i \in 1..Len(a) /\ g[i] = i
        BY <2>2, <3>1
      <4> QED
        BY <4>1
    <3>2. ASSUME NEW i \in 1..Len(l.down), i > k PROVE \E j \in 1..Len(a) : g[j] = i
      <4>1. i - 1 \in 1..Len(a) /\ g[i - 1] = i
        BY <2>2, <3>2
      <4> QED
        BY <4>1
    <3> QED
      BY <3>1, <3>2
  <2> HIDE DEF a, f, g
  <2>8. l.up
    BY <2>4, UpIfAny
  <2>9. /\ LineOK(t, m) /\ InFlight(m) \subseteq InFlight(l)
        /\ \A b : NoneBehind(l, b) => NoneBehind(m, b)
        /\ \A e, n : KnownOK(t, l, e, n) => KnownOK(t, m, e, n)
    BY <2>3, <2>5, <2>8, FewerIsFine
  <2>10. PagesOK(t, m, c)
    <3>1. OnlyPages(m.down, l.down, g)
      BY <2>1, <2>3, <2>7 DEF OnlyPages
    <3> QED
      BY <2>3, <2>5, <3>1, PagesLeft
  <2>11. ASSUME NEW r \in InFlight(l), r # request PROVE r \in InFlight(m)
    <3>1. CASE \E i \in 1..Len(l.asked) : l.asked[i] = r
      BY <2>3, <3>1, InFlightIs
    <3>2. CASE \E i \in 1..Len(l.down) : IsPage(l.down[i]) /\ l.down[i].request = r
      <4>1. PICK i \in 1..Len(l.down) : IsPage(l.down[i]) /\ l.down[i].request = r
        BY <3>2
      <4>2. i # k
        BY <2>1, <2>11, <4>1
      <4>3. PICK j \in 1..Len(a) : g[j] = i
        BY <2>7, <4>2
      <4> QED
        BY <2>3, <2>6, <4>1, <4>3, InFlightIs
    <3> QED
      BY <3>1, <3>2, InFlightIs
  <2>12. ASSUME NEW x \in Nat, NEW n \in Nat, Rest(t, l.down, 0, x, n) PROVE Rest(t, a, 0, x, n)
    <3>1. \A j \in 1..Len(l.down) : j > 0 /\ Counts(l.down[j]) =>
             \E i \in 1..Len(a) : i > 0 /\ g[i] = j
      <4>1. \A j \in 1..Len(l.down) : Counts(l.down[j]) => j # k
        BY <2>1 DEF Counts, IsPage
      <4>2. \A i \in 1..Len(a) : i > 0
        OBVIOUS
      <4> QED
        BY <2>7, <4>1, <4>2
    <3>2. \A j \in 1..Len(a) : j > 0 => g[j] > 0
      BY <2>6
    <3> DEFINE d == l.down
    <3>3. d \in Seq(TimeMail) /\ Leaves(a, d, g) /\ Rest(t, d, 0, x, n)
      BY <1>1, <2>2, <2>12
    <3>4. \A j \in 1..Len(d) : j > 0 /\ Counts(d[j]) => \E i \in 1..Len(a) : i > 0 /\ g[i] = j
      BY <3>1
    <3> HIDE DEF d
    <3> QED
      BY <2>2, <3>2, <3>3, <3>4, RestLeft
  <2>13. ASSUME ToAcknowledge(l.down) PROVE ToAcknowledge(a)
    <3>1. PICK i \in 1..Len(l.down) : /\ l.down[i].kind = "acknowledged"
                                      /\ \A j \in 1..i : l.down[j].kind \in {"page", "acknowledged"}
      BY <2>13 DEF ToAcknowledge
    <3>2. i # k
      BY <2>1, <3>1 DEF IsPage
    <3>3. PICK h \in 1..Len(a) : g[h] = i
      BY <2>7, <3>2
    <3>4. ASSUME NEW j \in 1..h PROVE a[j].kind \in {"page", "acknowledged"}
      <4>1. j \in 1..Len(a) /\ (j < h \/ j = h)
        BY <2>2
      <4>2. g[j] \in 1..i
        BY <2>2, <2>6, <3>3, <4>1 DEF Leaves
      <4> QED
        BY <2>6, <3>1, <4>1, <4>2
    <3> QED
      BY <2>6, <3>1, <3>3, <3>4 DEF ToAcknowledge
  <2> QED
    BY <2>3, <2>8, <2>9, <2>10, <2>11, <2>12, <2>13
<1> QED
  <2>1. \/ \E k \in 1..Len(l.asked) : l.asked[k] = request /\ m = [l EXCEPT !.asked = RemoveAt(@, k)]
        \/ \E k \in 1..Len(l.down) : /\ IsPage(l.down[k]) /\ l.down[k].request = request
                                     /\ m = [l EXCEPT !.down = RemoveAt(@, k)]
    BY <1>1 DEF Without, IsPage
  <2> QED
    BY <1>2, <1>3, <2>1

\* Behind a new row the rows are those of the longer timeline; other mail tells none
LEMMA RestAppend ==
    ASSUME NEW d \in Seq(TimeMail), NEW m \in TimeMail, NEW t \in Times, NEW k \in 0..Len(d),
           NEW x \in Nat, NEW n \in Nat
    PROVE  /\ ~IsRow(m) /\ Rest(t, d, k, x, n) => Rest(t, Append(d, m), k, x, n)
           /\ m = LiveRow(t.epoch, t.last + 1) /\ Rest(t, d, k, x, n)
                => Rest([t EXCEPT !.last = @ + 1], Append(d, m), k, x, n)
           /\ \A u : m.kind = "replaced" => Rest(u, Append(d, m), k, x, n)
<1> DEFINE e == Append(d, m)
<1>1. /\ e \in Seq(TimeMail) /\ Len(e) = Len(d) + 1 /\ Len(d) \in Nat
      /\ \A i \in 1..Len(d) : e[i] = d[i]
      /\ e[Len(d) + 1] = m
  BY AppendIs
<1> HIDE DEF e
<1>2. \A i \in 1..Len(e) : i \in 1..Len(d) \/ (i = Len(d) + 1 /\ e[i] = m)
  BY <1>1
<1>3. \A i \in 1..Len(d) : i \in 1..Len(e)
  BY <1>1
<1>4. ASSUME Replaced(d, k) PROVE Replaced(e, k)
  BY <1>1, <1>3, <1>4 DEF Replaced
<1>5. ASSUME ~IsRow(m), RestRows(t, d, k, x, n) PROVE RestRows(t, e, k, x, n)
  <2>1. \A i \in 1..Len(e) : IsRow(e[i]) => i \in 1..Len(d) /\ e[i] = d[i]
    BY <1>1, <1>2, <1>5
  <2>2. \A s \in Nat : s > n /\ s <= t.last => \E i \in 1..Len(e) : i > k /\ IsRow(e[i]) /\ e[i].seq = s
    BY <1>1, <1>3, <1>5 DEF RestRows
  <2> QED
    BY <1>5, <2>1, <2>2 DEF RestRows
<1>6. ASSUME m = LiveRow(t.epoch, t.last + 1), RestRows(t, d, k, x, n)
      PROVE  RestRows([t EXCEPT !.last = @ + 1], e, k, x, n)
  <2> DEFINE u == [t EXCEPT !.last = @ + 1]
  <2>1. u.epoch = t.epoch /\ u.last = t.last + 1 /\ t.last \in Nat
    BY DEF Times
  <2>2. IsRow(m) /\ m.epoch = t.epoch /\ m.seq = t.last + 1
    BY <1>6 DEF IsRow, LiveRow
  <2> HIDE DEF u
  <2>3. x = t.epoch /\ n <= t.last
    BY <1>6 DEF RestRows
  <2>4. ASSUME NEW i \in 1..Len(e), i > k, IsRow(e[i])
        PROVE  e[i].epoch = x /\ e[i].seq > n /\ e[i].seq <= u.last
    <3>1. CASE i \in 1..Len(d)
      <4>1. d[i].epoch = x /\ d[i].seq > n /\ d[i].seq <= t.last /\ d[i] \in TimeMail /\ IsRow(d[i])
        BY <1>1, <1>6, <2>4, <3>1 DEF RestRows
      <4>2. d[i].seq \in Nat
        BY <4>1, MailIs DEF TimeRows
      <4>3. e[i] = d[i]
        BY <1>1, <3>1
      <4>4. d[i].seq <= u.last
        <5>1. \A a, b, c \in Nat : a <= b /\ c = b + 1 => a <= c
          OBVIOUS
        <5>2. u.last \in Nat
          BY <2>1
        <5> QED
          BY <2>1, <4>1, <4>2, <5>1, <5>2
      <4> QED
        BY <4>1, <4>3, <4>4
    <3>2. CASE i = Len(d) + 1 /\ e[i] = m
      <4>2. m.seq = u.last /\ u.last \in Nat /\ u.last > n
        <5> DEFINE a == t.last
                   b == u.last
        <5>1. a \in Nat /\ b = a + 1 /\ n <= a /\ m.seq = b
          BY <2>1, <2>2, <2>3
        <5> HIDE DEF a, b
        <5>2. b \in Nat /\ b > n
          BY <5>1
        <5> QED
          BY <5>1, <5>2 DEF b
      <4>3. u.last <= u.last
        BY <4>2
      <4> QED
        BY <2>2, <2>3, <3>2, <4>2, <4>3
    <3> QED
      BY <1>2, <3>1, <3>2
  <2>5. ASSUME NEW s \in Nat, s > n, s <= u.last
        PROVE  \E i \in 1..Len(e) : i > k /\ IsRow(e[i]) /\ e[i].seq = s
    <3>1. CASE s <= t.last
      <4>1. PICK i \in 1..Len(d) : i > k /\ IsRow(d[i]) /\ d[i].seq = s
        BY <1>6, <2>5, <3>1 DEF RestRows
      <4> QED
        BY <1>1, <1>3, <4>1
    <3>2. CASE s = t.last + 1
      <4>1. Len(d) + 1 \in 1..Len(e) /\ Len(d) + 1 > k
        BY <1>1
      <4> QED
        BY <1>1, <2>2, <3>2, <4>1
    <3> QED
      BY <2>1, <2>5, <3>1, <3>2
  <2>6. ASSUME NEW i \in 1..Len(e), NEW j \in 1..Len(e), i > k, i < j, IsRow(e[i]), IsRow(e[j])
        PROVE  e[i].seq < e[j].seq
    <3>1. i \in 1..Len(d)
      BY <1>1, <2>6
    <3>2. CASE j \in 1..Len(d)
      BY <1>1, <1>6, <2>6, <3>1, <3>2 DEF RestRows
    <3>3. CASE j = Len(d) + 1 /\ e[j] = m
      <4>1. d[i].seq <= t.last /\ d[i] \in TimeMail /\ IsRow(d[i]) /\ e[i] = d[i]
        BY <1>1, <1>6, <2>6, <3>1 DEF RestRows
      <4>2. d[i].seq \in Nat
        BY <4>1, MailIs DEF TimeRows
      <4>4. m.seq \in Nat /\ d[i].seq < m.seq
        <5> DEFINE a == t.last
                   b == d[i].seq
        <5>1. a \in Nat /\ b \in Nat /\ b <= a /\ m.seq = a + 1
          BY <2>1, <2>2, <4>1, <4>2
        <5> HIDE DEF a, b
        <5>2. m.seq \in Nat /\ b < m.seq
          BY <5>1
        <5> QED
          BY <5>2 DEF b
      <4> QED
        BY <3>3, <4>1, <4>4
    <3> QED
      BY <1>2, <3>2, <3>3
  <2>7. x = u.epoch /\ n <= u.last
    BY <2>1, <2>3
  <2> QED
    BY <2>4, <2>5, <2>6, <2>7 DEF RestRows, u
<1>7. ASSUME NEW u, m.kind = "replaced" PROVE Rest(u, e, k, x, n)
  <2>1. Len(d) + 1 \in 1..Len(e) /\ Len(d) + 1 > k
    BY <1>1
  <2> QED
    BY <1>1, <1>7, <2>1 DEF Rest, Replaced
<1> QED
  BY <1>4, <1>5, <1>6, <1>7 DEF Rest, e

\* Who knows all the rows needs none
LEMMA RestNone ==
    ASSUME NEW d, NEW t \in Times, NEW k, k = Len(d), k \in Nat
    PROVE  Rest(t, d, k, t.epoch, t.last)
<1>1. t.last \in Nat /\ t.last <= t.last
  BY DEF Times
<1>2. \A i \in 1..Len(d) : ~(i > k)
  OBVIOUS
<1>3. \A s \in Nat : ~(s > t.last /\ s <= t.last)
  BY <1>1
<1> QED
  BY <1>1, <1>2, <1>3 DEF Rest, RestRows

With(l, m) == [l EXCEPT !.down = Append(@, m)]

\* A message that the daemon sends tells of its last row, if of any
LEMMA LineAppend ==
    ASSUME NEW t \in Times, NEW u \in Times, UpTo(t.epoch, t.last, u.epoch, u.last),
           NEW l \in TimeLinks, NEW m \in TimeMail, LineOK(t, l), l.up, MailOK(m),
           IsTold(m) => m.epoch = u.epoch /\ PointOf(m) = u.last,
           l.subscribed => m.kind # "refused",
           ~l.subscribed => m.kind \in {"page", "refused"}
    PROVE  /\ With(l, m) \in TimeLinks /\ With(l, m).up = l.up /\ With(l, m).subscribed = l.subscribed /\ With(l, m).asked = l.asked
           /\ With(l, m).down = Append(l.down, m) /\ LineOK(u, With(l, m))
           /\ \A e, n \in Nat : KnownOK(t, l, e, n) => KnownOK(u, With(l, m), e, n)
           /\ ToAcknowledge(l.down) => ToAcknowledge(With(l, m).down)
           /\ ~IsPage(m) => InFlight(With(l, m)) = InFlight(l) /\ \A b : NoneBehind(l, b) => NoneBehind(With(l, m), b)
<1> DEFINE k == With(l, m)
<1>1. /\ l.down \in Seq(TimeMail) /\ l.asked \in Seq(Fetched) /\ l.up \in BOOLEAN /\ l.subscribed \in BOOLEAN
      /\ t.epoch \in Nat /\ t.last \in Nat /\ u.epoch \in Nat /\ u.last \in Nat
  BY DEF TimeLinks, Times
<1> DEFINE e == Append(l.down, m)
<1>2. /\ e \in Seq(TimeMail) /\ Len(e) = Len(l.down) + 1 /\ Len(l.down) \in Nat
      /\ \A i \in 1..Len(l.down) : e[i] = l.down[i]
      /\ e[Len(l.down) + 1] = m
  BY <1>1, AppendIs
<1> HIDE DEF e
<1>3. /\ k \in TimeLinks /\ k.up = l.up /\ k.subscribed = l.subscribed /\ k.asked = l.asked
      /\ k.down = e
  <2>1. k = [l EXCEPT !.down = e]
    BY DEF e, With
  <2> QED
    BY <1>1, <1>2, <2>1 DEF TimeLinks
<1> HIDE DEF k
<1>4. \A i \in 1..Len(e) : (i \in 1..Len(l.down) /\ e[i] = l.down[i]) \/ (i = Len(l.down) + 1 /\ e[i] = m)
  BY <1>2
<1>5. \A i \in 1..Len(l.down) : i \in 1..Len(e) /\ e[i] = l.down[i] /\ l.down[i] \in TimeMail
  BY <1>1, <1>2
<1>6. \A f, n \in Nat : UpTo(f, n, t.epoch, t.last) => UpTo(f, n, u.epoch, u.last)
  <2> SUFFICES ASSUME NEW f \in Nat, NEW n \in Nat, UpTo(f, n, t.epoch, t.last)
               PROVE  UpTo(f, n, u.epoch, u.last)
    OBVIOUS
  <2> DEFINE a == t.epoch
             b == t.last
             c == u.epoch
             h == u.last
  <2>1. a \in Nat /\ b \in Nat /\ c \in Nat /\ h \in Nat /\ UpTo(f, n, a, b) /\ UpTo(a, b, c, h)
    BY <1>1
  <2> HIDE DEF a, b, c, h
  <2>2. UpTo(f, n, c, h)
    BY <2>1, UpToSteps
  <2> QED
    BY <2>2 DEF c, h
<1>7. ASSUME NEW i \in 1..Len(e), IsTold(e[i])
      PROVE  UpTo(e[i].epoch, PointOf(e[i]), u.epoch, u.last)
  <2>1. e[i].epoch \in Nat /\ PointOf(e[i]) \in Nat
    BY <1>2, <1>7, MailIs
  <2>2. CASE i \in 1..Len(l.down) /\ e[i] = l.down[i]
    BY <1>6, <1>7, <2>1, <2>2 DEF LineOK, ToldInOrder
  <2>3. CASE e[i] = m
    BY <1>1, <1>7, <2>3, UpToSteps, SMTT(30)
  <2> QED
    BY <1>4, <2>2, <2>3
<1>8. ASSUME NEW i \in 1..Len(e), NEW j \in 1..Len(e), i < j, IsTold(e[i]), IsTold(e[j])
      PROVE  UpTo(e[i].epoch, PointOf(e[i]), e[j].epoch, PointOf(e[j]))
  <2>1. CASE j \in 1..Len(l.down) /\ e[j] = l.down[j]
    <3>1. i \in 1..Len(l.down) /\ e[i] = l.down[i]
      BY <1>2, <1>8, <2>1
    <3> QED
      BY <1>8, <2>1, <3>1 DEF LineOK, ToldInOrder
  <2>2. CASE e[j] = m
    BY <1>7, <1>8, <2>2
  <2> QED
    BY <1>4, <2>1, <2>2
<1>9. LineOK(u, k)
  <2>1. ToldInOrder(u, e)
    BY <1>7, <1>8 DEF ToldInOrder
  <2>2. \A i \in 1..Len(e) : MailOK(e[i])
    BY <1>4 DEF LineOK
  <2>3. ~l.subscribed => \A i \in 1..Len(e) : e[i].kind \in {"page", "refused"}
    BY <1>4 DEF LineOK
  <2>4. l.subscribed => \A i \in 1..Len(e) : e[i].kind # "refused"
    BY <1>4 DEF LineOK
  <2> QED
    BY <1>3, <2>1, <2>2, <2>3, <2>4 DEF LineOK
<1>10. ASSUME NEW f \in Nat, NEW n \in Nat, KnownOK(t, l, f, n) PROVE KnownOK(u, k, f, n)
  <2>1. UpTo(f, n, u.epoch, u.last)
    BY <1>6, <1>10 DEF KnownOK
  <2>2. ASSUME NEW i \in 1..Len(e), IsTold(e[i]) PROVE UpTo(f, n, e[i].epoch, PointOf(e[i]))
    <3>1. CASE i \in 1..Len(l.down) /\ e[i] = l.down[i]
      BY <1>10, <2>2, <3>1 DEF KnownOK
    <3>2. CASE e[i] = m
      BY <2>1, <2>2, <3>2
    <3> QED
      BY <1>4, <3>1, <3>2
  <2> QED
    BY <1>3, <2>1, <2>2 DEF KnownOK
<1>11. ASSUME ToAcknowledge(l.down) PROVE ToAcknowledge(e)
  <2>1. PICK i \in 1..Len(l.down) : /\ l.down[i].kind = "acknowledged"
                                    /\ \A j \in 1..i : l.down[j].kind \in {"page", "acknowledged"}
    BY <1>11 DEF ToAcknowledge
  <2>2. \A j \in 1..i : j \in 1..Len(l.down)
    BY <1>2
  <2> QED
    BY <1>5, <2>1, <2>2 DEF ToAcknowledge
<1>12. ASSUME ~IsPage(m) PROVE InFlight(k) = InFlight(l) /\ \A b : NoneBehind(l, b) => NoneBehind(k, b)
  <2>1. \A i \in 1..Len(e) : IsPage(e[i]) => i \in 1..Len(l.down) /\ e[i] = l.down[i]
    BY <1>4, <1>12
  <2>2. \A r : (\E i \in 1..Len(e) : IsPage(e[i]) /\ e[i].request = r)
                 <=> (\E i \in 1..Len(l.down) : IsPage(l.down[i]) /\ l.down[i].request = r)
    BY <1>5, <2>1
  <2>3. \A r : r \in InFlight(k) <=> r \in InFlight(l)
    <3> SUFFICES ASSUME NEW r PROVE r \in InFlight(k) <=> r \in InFlight(l)
      OBVIOUS
    <3>1. r \in InFlight(k) <=>
             \/ \E i \in 1..Len(k.asked) : k.asked[i] = r
             \/ \E i \in 1..Len(k.down) : IsPage(k.down[i]) /\ k.down[i].request = r
      BY <1>3, InFlightIs
    <3>2. r \in InFlight(l) <=>
             \/ \E i \in 1..Len(l.asked) : l.asked[i] = r
             \/ \E i \in 1..Len(l.down) : IsPage(l.down[i]) /\ l.down[i].request = r
      BY InFlightIs
    <3> QED
      <4> DEFINE A(q) == \E i \in 1..Len(q) : q[i] = r
                 B(q) == \E i \in 1..Len(q) : IsPage(q[i]) /\ q[i].request = r
      <4>1. (r \in InFlight(k) <=> A(k.asked) \/ B(k.down)) /\ (r \in InFlight(l) <=> A(l.asked) \/ B(l.down))
        BY <3>1, <3>2
      <4>2. B(e) <=> B(l.down)
        BY <2>2
      <4> HIDE DEF A, B
      <4> QED
        BY <1>3, <4>1, <4>2
  <2>4. ASSUME NEW b, NoneBehind(l, b) PROVE NoneBehind(k, b)
    BY <1>3, <2>1, <2>4 DEF NoneBehind
  <2>5. InFlight(k) = InFlight(l)
    <3> DEFINE A == InFlight(k)
               B == InFlight(l)
    <3>1. \A r : r \in A <=> r \in B
      BY <2>3
    <3> HIDE DEF A, B
    <3>2. A = B
      BY <3>1
    <3> QED
      BY <3>2 DEF A, B
  <2> QED
    BY <2>4, <2>5
<1> QED
  BY <1>3, <1>9, <1>10, <1>11, <1>12 DEF e, k

-----------------------------------------------------------------------------
(* The daemon *)

\* What stays true of a chat when messages come or are gone
LEMMA Carried ==
    ASSUME NEW t, NEW u \in Times, NEW l, NEW k \in TimeLinks, NEW c,
           TimelineAt(t, l, c), k.up = l.up, LineOK(u, k), InFlight(k) \subseteq InFlight(l),
           \A b : NoneBehind(l, b) => NoneBehind(k, b),
           \A e, n \in Nat : KnownOK(t, l, e, n) => KnownOK(u, k, e, n),
           c.member = "acknowledged" => k.subscribed,
           c.member # "acknowledged" /\ k.subscribed => ToAcknowledge(k.down),
           PagesOK(u, k, c), CompleteOK(u, k, c)
    PROVE  TimelineAt(u, k, c)
<1>1. /\ t \in Times /\ l \in TimeLinks /\ c \in Chats
      /\ LineOK(t, l) /\ MemberOK(t, l, c) /\ PagesOK(t, l, c) /\ CatchUpOK(l, c)
      /\ CompleteOK(t, l, c)
      /\ c.synced => SyncedOK(t, l, c)
      /\ ~c.synced => FreshOK(t, l, c)
  BY DEF TimelineAt
<1>2. MemberOK(u, k, c)
  BY <1>1 DEF MemberOK
<1>3. \A e, n : AfterUpTo(l, e, n) => AfterUpTo(k, e, n)
  BY DEF AfterUpTo
<1>4. NoAfter(l) => NoAfter(k)
  BY DEF NoAfter
<1>5. CatchUpOK(k, c)
  BY <1>1, <1>3, <1>4 DEF CatchUpOK, LastAfter
<1>6. c.range.epoch \in Nat /\ c.range.to \in Nat
  BY <1>1 DEF Chats, Ranges
<1>7. c.synced => SyncedOK(u, k, c)
  BY <1>1, <1>3, <1>6 DEF SyncedOK
<1>8. ASSUME ~c.synced PROVE FreshOK(u, k, c)
  <2>1. FreshOK(t, l, c)
    BY <1>1, <1>8
  <2>2. ASSUME NEW r \in c.rows \cup c.overlay PROVE EarlyOK(u, k, r)
    <3>1. r \in Nat \X Nat
      BY <1>1 DEF Chats, ChatRows
    <3>2. r[1] \in Nat /\ r[2] \in Nat
      BY <3>1
    <3>3. EarlyOK(t, l, r)
      BY <2>1 DEF FreshOK
    <3> QED
      BY <3>2, <3>3 DEF EarlyOK
  <2>3. c.member # "acknowledged" => InFlight(k) = {}
    BY <2>1 DEF FreshOK
  <2> QED
    BY <2>1, <2>2, <2>3 DEF FreshOK
<1> QED
  BY <1>1, <1>2, <1>5, <1>7, <1>8 DEF TimelineAt

\* An app that has not subscribed is not told what happens
LEMMA Untold ==
    ASSUME NEW t \in Times, NEW u \in Times, UpTo(t.epoch, t.last, u.epoch, u.last),
           NEW l, NEW c, TimelineAt(t, l, c), ~l.subscribed
    PROVE  TimelineAt(u, l, c)
<1>1. /\ l \in TimeLinks /\ c \in Chats /\ LineOK(t, l) /\ MemberOK(t, l, c)
      /\ t.epoch \in Nat /\ t.last \in Nat /\ u.epoch \in Nat /\ u.last \in Nat
  BY DEF TimelineAt, Times
<1>2. ASSUME NEW f \in Nat, NEW n \in Nat, UpTo(f, n, t.epoch, t.last)
      PROVE  UpTo(f, n, u.epoch, u.last)
  <2> DEFINE a == t.epoch
             b == t.last
             d == u.epoch
             h == u.last
  <2>1. a \in Nat /\ b \in Nat /\ d \in Nat /\ h \in Nat /\ UpTo(f, n, a, b) /\ UpTo(a, b, d, h)
    BY <1>1, <1>2
  <2> HIDE DEF a, b, d, h
  <2>2. UpTo(f, n, d, h)
    BY <2>1, UpToSteps
  <2> QED
    BY <2>2 DEF d, h
<1>3. \A i \in 1..Len(l.down) : IsTold(l.down[i]) => l.down[i].epoch \in Nat /\ PointOf(l.down[i]) \in Nat
  <2>1. \A i \in 1..Len(l.down) : l.down[i] \in TimeMail
    BY <1>1 DEF TimeLinks
  <2> QED
    BY <2>1, MailIs
<1>4. LineOK(u, l)
  BY <1>1, <1>2, <1>3 DEF LineOK, ToldInOrder
<1>5. \A e, n \in Nat : KnownOK(t, l, e, n) => KnownOK(u, l, e, n)
  BY <1>2 DEF KnownOK
<1>6. c.member # "acknowledged" /\ c.catchUp.status = "none"
  BY <1>1 DEF MemberOK, NoCatchUp
<1>7. PagesOK(u, l, c)
  <2>1. \A i \in 1..Len(l.down) : l.down[i].kind # "acknowledged"
    BY <1>1 DEF LineOK
  <2> QED
    BY <1>6, <2>1 DEF PagesOK
<1>8. CompleteOK(u, l, c)
  BY <1>6 DEF CompleteOK
<1> QED
  BY <1>1, <1>4, <1>5, <1>6, <1>7, <1>8, Carried

KeepsRest(t, u, d, m) ==
    \A k \in 0..Len(d), x, n \in Nat : Rest(t, d, k, x, n) => Rest(u, Append(d, m), k, x, n)

\* A row or a replacement is told to the subscribed app
LEMMA Tells ==
    ASSUME NEW t \in Times, NEW u \in Times, UpTo(t.epoch, t.last, u.epoch, u.last),
           NEW l, NEW c, TimelineAt(t, l, c), Awaited(l, c), l.subscribed,
           NEW m \in TimeMail, MailOK(m), ~IsPage(m), m.kind # "refused",
           IsTold(m) => m.epoch = u.epoch /\ PointOf(m) = u.last,
           KeepsRest(t, u, l.down, m)
    PROVE  TimelineAt(u, With(l, m), c) /\ Awaited(With(l, m), c)
<1> DEFINE k == With(l, m)
<1> HIDE DEF k
<1>1. /\ l \in TimeLinks /\ c \in Chats /\ LineOK(t, l) /\ MemberOK(t, l, c) /\ PagesOK(t, l, c)
      /\ CompleteOK(t, l, c) /\ l.down \in Seq(TimeMail)
  BY DEF TimelineAt, TimeLinks
<1>2. l.up
  <2>1. SUFFICES ASSUME ~l.up PROVE FALSE
    OBVIOUS
  <2> QED
    BY <1>1, <2>1 DEF LineOK, NoLink
<1>3. /\ k \in TimeLinks /\ k.up = l.up /\ k.subscribed = l.subscribed /\ k.down = Append(l.down, m)
      /\ LineOK(u, k)
      /\ \A e, n \in Nat : KnownOK(t, l, e, n) => KnownOK(u, k, e, n)
      /\ ToAcknowledge(l.down) => ToAcknowledge(k.down)
      /\ InFlight(k) = InFlight(l) /\ \A b : NoneBehind(l, b) => NoneBehind(k, b)
  <2>1. /\ l.up /\ (l.subscribed => m.kind # "refused") /\ LineOK(t, l)
        /\ (~l.subscribed => m.kind \in {"page", "refused"})
    BY <1>1, <1>2
  <2> QED
    BY <1>1, <2>1, LineAppend DEF k
<1>4. /\ Len(k.down) = Len(l.down) + 1 /\ Len(l.down) \in Nat
      /\ \A i \in 1..Len(l.down) : k.down[i] = l.down[i]
      /\ k.down[Len(l.down) + 1] = m
  BY <1>1, <1>3, AppendIs
<1>5. PagesOK(u, k, c)
  <2> SUFFICES ASSUME NEW j \in 1..Len(k.down), IsPage(k.down[j])
               PROVE  \/ Rest(u, k.down, j, k.down[j].epoch, k.down[j].last)
                      \/ /\ c.member # "acknowledged"
                         /\ \A i \in 1..j : k.down[i].kind # "acknowledged"
    BY DEF PagesOK
  <2>1. j \in 1..Len(l.down) /\ k.down[j] = l.down[j]
    BY <1>4
  <2>2. l.down[j] \in TimePages
    BY <1>1, <2>1, MailIs
  <2>3. l.down[j].epoch \in Nat /\ l.down[j].last \in Nat /\ j \in 0..Len(l.down)
    BY <1>4, <2>1, <2>2 DEF TimePages
  <2>4. CASE Rest(t, l.down, j, l.down[j].epoch, l.down[j].last)
    BY <1>3, <2>1, <2>3, <2>4 DEF KeepsRest
  <2>5. CASE /\ c.member # "acknowledged"
             /\ \A i \in 1..j : l.down[i].kind # "acknowledged"
    BY <1>4, <2>1, <2>5
  <2> QED
    BY <1>1, <2>1, <2>4, <2>5 DEF PagesOK
<1>6. CompleteOK(u, k, c)
  <2>1. c.range.epoch \in Nat /\ c.range.to \in Nat
    BY <1>1 DEF Chats, Ranges
  <2>2. 0 \in 0..Len(l.down)
    BY <1>4
  <2> QED
    BY <1>1, <1>3, <2>1, <2>2 DEF CompleteOK, KeepsRest
<1>7. TimelineAt(u, k, c)
  BY <1>1, <1>3, <1>5, <1>6, Carried DEF MemberOK
<1> QED
  BY <1>3, <1>7 DEF Awaited, k

\* A new row is sent behind everything it comes after
LEMMA AppendsRowStep ==
    ASSUME TimelineAt(timeline, link, chat), Awaited(link, chat), AppendsRow
    PROVE  TimelineAt(timeline', link', chat) /\ Awaited(link', chat)
<1> DEFINE t == timeline
           u == [t EXCEPT !.last = @ + 1]
           m == LiveRow(t.epoch, t.last + 1)
<1>1. t \in Times /\ link \in TimeLinks /\ t.epoch \in Nat \ {0} /\ t.last \in Nat \ {0}
  BY DEF TimelineAt, Times
<1>2. timeline' = u /\ u \in Times /\ u.epoch = t.epoch /\ u.last = t.last + 1
  BY <1>1 DEF AppendsRow, Times
<1>3. link' = Sent(link, m)
  BY <1>2 DEF AppendsRow
<1>4. UpTo(t.epoch, t.last, u.epoch, u.last)
  BY <1>1, <1>2 DEF UpTo
<1>5. /\ m \in TimeMail /\ IsRow(m) /\ ~IsPage(m) /\ MailOK(m) /\ m.kind # "refused"
      /\ m.epoch = u.epoch /\ PointOf(m) = u.last
  BY <1>1, <1>2 DEF LiveRow, TimeMail, TimeRows, IsRow, IsPage, MailOK, PointOf
<1>6. CASE link.subscribed
  <2>1. link.down \in Seq(TimeMail)
    BY <1>1 DEF TimeLinks
  <2>2. KeepsRest(t, u, link.down, m)
    <3> HIDE DEF m
    <3> SUFFICES ASSUME NEW k \in 0..Len(link.down), NEW x \in Nat, NEW n \in Nat, Rest(t, link.down, k, x, n)
                 PROVE  Rest(u, Append(link.down, m), k, x, n)
      BY DEF KeepsRest
    <3>1. m = LiveRow(t.epoch, t.last + 1)
      BY DEF m
    <3> DEFINE d == link.down
    <3>2. d \in Seq(TimeMail) /\ k \in 0..Len(d) /\ Rest(t, d, k, x, n)
      BY <2>1
    <3> HIDE DEF d
    <3>3. Rest(u, Append(d, m), k, x, n)
      BY <1>1, <1>5, <3>1, <3>2, RestAppend
    <3> QED
      BY <3>3 DEF d
  <2>3. link' = With(link, m)
    BY <1>3, <1>6 DEF Sent, With
  <2> HIDE DEF m, t, u
  <2>4. TimelineAt(t, link, chat)
    BY DEF t
  <2>5. TimelineAt(u, With(link, m), chat) /\ Awaited(With(link, m), chat)
    BY <1>1, <1>2, <1>4, <1>5, <1>6, <2>2, <2>4, Tells
  <2> QED
    BY <1>2, <2>3, <2>5
<1>7. CASE ~link.subscribed
  <2>1. link' = link
    BY <1>3, <1>7 DEF Sent
  <2> HIDE DEF u
  <2>2. TimelineAt(u, link, chat)
    BY <1>1, <1>2, <1>4, <1>7, Untold
  <2> QED
    BY <1>2, <2>1, <2>2
<1> QED
  BY <1>6, <1>7

\* A rewind tells that the rows are replaced, before any row of the new epoch
LEMMA RewindsStep ==
    ASSUME TimelineAt(timeline, link, chat), Awaited(link, chat), Rewinds, StartRows \in Nat \ {0}
    PROVE  TimelineAt(timeline', link', chat) /\ Awaited(link', chat)
<1> DEFINE t == timeline
           u == timeline'
           m == [kind |-> "replaced"]
<1>1. t \in Times /\ link \in TimeLinks /\ t.epoch \in Nat \ {0} /\ t.last \in Nat \ {0}
  BY DEF TimelineAt, Times
<1>2. u \in Times /\ u.epoch = t.epoch + 1 /\ u.epoch \in Nat /\ u.last \in Nat
  BY <1>1 DEF Rewinds, Times
<1>3. link' = Sent(link, m)
  BY DEF Rewinds
<1>4. UpTo(t.epoch, t.last, u.epoch, u.last)
  BY <1>1, <1>2 DEF UpTo
<1>5. /\ m \in TimeMail /\ ~IsPage(m) /\ MailOK(m) /\ m.kind # "refused" /\ ~IsTold(m)
      /\ m.kind = "replaced"
  BY DEF TimeMail, TimeWords, IsRow, IsPage, IsTold, MailOK
<1>6. CASE link.subscribed
  <2>1. link.down \in Seq(TimeMail)
    BY <1>1 DEF TimeLinks
  <2> HIDE DEF m, t, u
  <2>2. KeepsRest(t, u, link.down, m)
    <3> SUFFICES ASSUME NEW k \in 0..Len(link.down), NEW x \in Nat, NEW n \in Nat
                 PROVE  Rest(u, Append(link.down, m), k, x, n)
      BY DEF KeepsRest
    <3> DEFINE d == link.down
    <3>2. d \in Seq(TimeMail) /\ k \in 0..Len(d)
      BY <2>1
    <3> HIDE DEF d
    <3>3. Rest(u, Append(d, m), k, x, n)
      BY <1>1, <1>5, <3>2, RestAppend
    <3> QED
      BY <3>3 DEF d
  <2>3. link' = With(link, m)
    BY <1>3, <1>6 DEF Sent, With
  <2>4. TimelineAt(t, link, chat)
    BY DEF t
  <2>5. TimelineAt(u, With(link, m), chat) /\ Awaited(With(link, m), chat)
    BY <1>1, <1>2, <1>4, <1>5, <1>6, <2>2, <2>4, Tells
  <2> QED
    BY <2>3, <2>5 DEF u
<1>7. CASE ~link.subscribed
  <2>1. link' = link
    BY <1>3, <1>7 DEF Sent
  <2> HIDE DEF u
  <2>2. TimelineAt(u, link, chat)
    BY <1>1, <1>2, <1>4, <1>7, Untold
  <2> QED
    BY <2>1, <2>2 DEF u
<1> QED
  BY <1>6, <1>7

\* A page tells of the rows that the daemon has
LEMMA PageOfIs ==
    ASSUME NEW request \in Fetched, RequestOK(request), timeline \in Times, PageSize \in Nat \ {0}
    PROVE  /\ PageOf(request) \in TimePages /\ PageIs(PageOf(request))
           /\ PageOf(request).kind = "page" /\ PageOf(request).request = request
           /\ PageOf(request).epoch = timeline.epoch /\ PageOf(request).last = timeline.last
<1> DEFINE stale == request.dir # "tail" /\ request.epoch # timeline.epoch
           last  == timeline.last
           dir   == IF stale THEN "tail" ELSE request.dir
           from  == CASE dir = "tail"   -> IF last > PageSize THEN last - PageSize + 1 ELSE 1
                      [] dir = "after"  -> request.seq + 1
                      [] dir = "before" -> IF request.seq > PageSize THEN request.seq - PageSize ELSE 1
           to    == CASE dir = "tail"   -> last
                      [] dir = "after"  -> IF request.seq + PageSize < last
                                           THEN request.seq + PageSize ELSE last
                      [] dir = "before" -> request.seq - 1
           empty == from > to
           older == ~empty /\ from > 1
           newer == dir = "before" \/ (dir = "after" /\ ~empty /\ to < last)
           p == [kind |-> "page", request |-> request, dir |-> request.dir, reset |-> stale,
                 epoch |-> timeline.epoch, last |-> last,
                 from |-> IF empty THEN 0 ELSE from, to |-> IF empty THEN 0 ELSE to,
                 older |-> older, newer |-> newer]
<1>1. PageOf(request) = p
  BY DEF PageOf
<1>2. /\ timeline.epoch \in Nat /\ timeline.epoch # 0 /\ last \in Nat /\ last # 0
      /\ request.dir \in {"none", "tail", "after", "before"} /\ request.seq \in Nat /\ request.epoch \in Nat
      /\ stale \in BOOLEAN /\ PageSize \in Nat /\ PageSize # 0
  BY DEF Times, Fetched
<1>3. /\ request.dir \in {"tail", "after", "before"}
      /\ request.dir # "tail" => request.epoch # 0 /\ request.seq # 0
  BY DEF RequestOK, LatestRows, IsAfter, IsBefore
<1>4. dir \in {"tail", "after", "before"} /\ (dir = "tail" <=> (request.dir = "tail" \/ stale))
      /\ (~stale => dir = request.dir)
  BY <1>3
<1>5. dir = "tail" => /\ to = last /\ from \in Nat /\ from # 0 /\ from <= to
                      /\ from = 1 \/ to + 1 >= from + PageSize
                      /\ to + 1 <= from + PageSize
  <2> HIDE DEF dir
  <2> QED
    BY <1>2
<1>6. dir = "after" => /\ from = request.seq + 1 /\ to \in Nat /\ to # 0 /\ to <= last
                       /\ to + 1 <= from + PageSize
                       /\ to = last \/ (to = request.seq + PageSize /\ to < last)
  <2> HIDE DEF dir
  <2> QED
    BY <1>2
<1>7. dir = "before" => /\ from \in Nat /\ from # 0 /\ to = request.seq - 1 /\ to \in Nat
  <2> HIDE DEF dir
  <2> QED
    BY <1>2, <1>3, <1>4
<1>8. from \in Nat /\ from # 0 /\ to \in Nat
  <2> HIDE DEF from, to, dir
  <2> QED
    BY <1>2, <1>4, <1>5, <1>6, <1>7
<1>9. empty \in BOOLEAN /\ older \in BOOLEAN /\ newer \in BOOLEAN
  OBVIOUS
<1> HIDE DEF from, to
<1>10. p \in TimePages
  <2>1. (IF empty THEN 0 ELSE from) \in Nat /\ (IF empty THEN 0 ELSE to) \in Nat
    BY <1>8
  <2> HIDE DEF empty, older, newer, dir, stale, last
  <2> QED
    BY <1>2, <1>9, <2>1 DEF TimePages, last
<1>11. PageIs(p)
  <2>1. /\ p.request = request /\ p.dir = request.dir /\ p.reset = stale /\ p.epoch = timeline.epoch
        /\ p.last = last /\ p.from = (IF empty THEN 0 ELSE from) /\ p.to = (IF empty THEN 0 ELSE to)
        /\ p.older = older /\ p.newer = newer
    OBVIOUS
  <2> DEFINE q == p
  <2> HIDE DEF dir, q
  <2>2. \/ q.from = 0 /\ q.to = 0 /\ ~q.older
        \/ q.from # 0 /\ q.from <= q.to /\ (q.older <=> q.from > 1)
    <3>1. CASE empty
      BY <2>1, <3>1 DEF q
    <3>2. CASE ~empty
      <4>1. q.from = from /\ q.to = to /\ (q.older <=> from > 1)
        BY <2>1, <3>2 DEF q
      <4>2. from <= to
        BY <1>8, <3>2
      <4> QED
        BY <1>8, <4>1, <4>2
    <3> QED
      BY <3>1, <3>2
  <2>3. q.dir = "tail" \/ q.reset =>
          q.to = q.last /\ ~q.newer /\ Wide(q) /\ q.to + 1 <= q.from + PageSize
    <3> SUFFICES ASSUME dir = "tail"
                 PROVE  q.to = q.last /\ ~q.newer /\ Wide(q) /\ q.to + 1 <= q.from + PageSize
      BY <1>4, <2>1 DEF q
    <3>1. ~empty /\ q.to = to /\ q.from = from
      BY <1>2, <1>5, <1>8, <2>1 DEF q
    <3>2. ~newer
      BY <1>4
    <3> QED
      BY <1>2, <1>5, <2>1, <3>1, <3>2 DEF Wide, q
  <2>5. q.dir # "tail" /\ ~q.reset => q.epoch = q.request.epoch
    BY <2>1 DEF q
  <2>6. q.dir = "after" /\ ~q.reset =>
          /\ q.to <= q.last
          /\ q.to # 0 => q.from = q.request.seq + 1 /\ q.to + 1 <= q.from + PageSize
          /\ ~q.newer => q.to = q.last \/ (q.to = 0 /\ q.request.seq >= q.last)
          /\ q.newer => q.to # 0
    <3> SUFFICES ASSUME dir = "after"
                 PROVE  /\ q.to <= q.last
                        /\ q.to # 0 => q.from = q.request.seq + 1 /\ q.to + 1 <= q.from + PageSize
                        /\ ~q.newer => q.to = q.last \/ (q.to = 0 /\ q.request.seq >= q.last)
                        /\ q.newer => q.to # 0
      BY <1>4, <2>1 DEF q
    <3>1. q.newer <=> (~empty /\ to < last)
      BY <2>1 DEF q
    <3>2. empty => q.to = 0 /\ request.seq + 1 > to
      BY <1>6, <2>1 DEF q
    <3>3. ~empty => q.to = to /\ q.from = from
      BY <2>1 DEF q
    <3>4. CASE empty
      <4>1. to = last
        BY <1>2, <1>6, <3>2, <3>4
      <4> QED
        BY <1>2, <1>6, <2>1, <3>1, <3>2, <3>4, <4>1 DEF q
    <3>5. CASE ~empty
      BY <1>2, <1>6, <2>1, <3>1, <3>3, <3>5 DEF q
    <3> QED
      BY <3>4, <3>5
  <2>7. q.dir = "before" /\ ~q.reset /\ q.to # 0 => q.to + 1 = q.request.seq
    <3> SUFFICES ASSUME dir = "before", q.to # 0 PROVE q.to + 1 = q.request.seq
      BY <1>4, <2>1 DEF q
    <3> QED
      BY <1>2, <1>7, <2>1 DEF q
  <2>8. RequestOK(q.request) /\ q.dir = q.request.dir /\ q.epoch # 0 /\ q.last # 0
    BY <1>2, <2>1 DEF q
  <2>4. q.dir = "tail" => ~q.reset
    BY <2>1 DEF q
  <2>9. PageIs(q)
    BY <2>2, <2>3, <2>4, <2>5, <2>6, <2>7, <2>8 DEF PageIs, PageTells
  <2> QED
    BY <2>9 DEF q
<1> QED
  BY <1>1, <1>10, <1>11

\* A page is cut from the rows at the moment it is sent
LEMMA AnswersRequestStep ==
    ASSUME TimelineAt(timeline, link, chat), Awaited(link, chat), AnswersRequest,
           PageSize \in Nat \ {0}
    PROVE  TimelineAt(timeline', link', chat) /\ Awaited(link', chat)
<1> DEFINE t == timeline
           l == link
           c == chat
           p == PageOf(Head(l.asked))
           a == [l EXCEPT !.asked = Tail(@)]
           k == With(a, p)
<1>1. /\ t \in Times /\ l \in TimeLinks /\ c \in Chats /\ LineOK(t, l) /\ MemberOK(t, l, c)
      /\ PagesOK(t, l, c) /\ CompleteOK(t, l, c) /\ l.asked \in Seq(Fetched) /\ l.down \in Seq(TimeMail)
      /\ l.asked # <<>> /\ timeline' = timeline
  BY DEF TimelineAt, TimeLinks, AnswersRequest
<1>2. /\ Head(l.asked) = l.asked[1] /\ l.asked[1] \in Fetched /\ 1 \in 1..Len(l.asked)
      /\ Tail(l.asked) \in Seq(Fetched) /\ Len(Tail(l.asked)) = Len(l.asked) - 1 /\ Len(l.asked) \in Nat
      /\ \A i \in 1..Len(Tail(l.asked)) : Tail(l.asked)[i] = l.asked[i + 1] /\ i + 1 \in 1..Len(l.asked)
  BY <1>1, TailIs
<1>3. /\ p \in TimePages /\ PageIs(p) /\ p.kind = "page" /\ p.request = l.asked[1]
      /\ p.epoch = t.epoch /\ p.last = t.last
  BY <1>1, <1>2, PageOfIs DEF LineOK
<1>4. l.up
  BY <1>1, UpIfAny
<1> HIDE DEF p
<1>5. /\ a \in TimeLinks /\ a.up = l.up /\ a.subscribed = l.subscribed /\ a.down = l.down
      /\ a.asked = Tail(l.asked)
  BY <1>1, <1>2 DEF TimeLinks
<1>6. link' = k
  BY DEF AnswersRequest, With, p
<1> HIDE DEF a
<1>7. LineOK(t, a) /\ \A e, n : KnownOK(t, l, e, n) => KnownOK(t, a, e, n)
  <2>1. \A i \in 1..Len(a.asked) : RequestOK(a.asked[i])
    BY <1>1, <1>2, <1>5 DEF LineOK
  <2> QED
    BY <1>1, <1>4, <1>5, <2>1 DEF LineOK, KnownOK
<1>8. /\ k \in TimeLinks /\ k.up = l.up /\ k.subscribed = l.subscribed /\ k.asked = Tail(l.asked)
      /\ k.down = Append(l.down, p) /\ LineOK(t, k)
      /\ \A e, n \in Nat : KnownOK(t, a, e, n) => KnownOK(t, k, e, n)
      /\ ToAcknowledge(l.down) => ToAcknowledge(k.down)
  <2>1. /\ p \in TimeMail /\ MailOK(p) /\ PointOf(p) = t.last /\ p.kind # "refused"
        /\ p.kind \in {"page", "refused"}
    BY <1>3 DEF TimeMail, MailOK, IsRow, PointOf
  <2>2. UpTo(t.epoch, t.last, t.epoch, t.last)
    BY <1>1 DEF Times, UpTo
  <2>3. IsTold(p) => p.epoch = t.epoch /\ PointOf(p) = t.last
    BY <1>3, <2>1
  <2> HIDE DEF t, k
  <2>4. /\ t \in Times /\ UpTo(t.epoch, t.last, t.epoch, t.last) /\ a \in TimeLinks /\ p \in TimeMail
        /\ LineOK(t, a) /\ a.up /\ MailOK(p)
    BY <1>1, <1>4, <1>5, <1>7, <2>1, <2>2
  <2>5. /\ IsTold(p) => p.epoch = t.epoch /\ PointOf(p) = t.last
        /\ a.subscribed => p.kind # "refused"
        /\ ~a.subscribed => p.kind \in {"page", "refused"}
    BY <2>1, <2>3
  <2>6. /\ With(a, p) \in TimeLinks /\ With(a, p).up = a.up /\ With(a, p).subscribed = a.subscribed
        /\ With(a, p).asked = a.asked /\ With(a, p).down = Append(a.down, p) /\ LineOK(t, With(a, p))
        /\ \A e, n \in Nat : KnownOK(t, a, e, n) => KnownOK(t, With(a, p), e, n)
        /\ ToAcknowledge(a.down) => ToAcknowledge(With(a, p).down)
    BY <2>4, <2>5, LineAppend
  <2> QED
    BY <1>5, <2>6 DEF k
<1> HIDE DEF k
<1>9. /\ Len(k.down) = Len(l.down) + 1 /\ Len(l.down) \in Nat
      /\ \A i \in 1..Len(l.down) : k.down[i] = l.down[i]
      /\ k.down[Len(l.down) + 1] = p
  <2>1. p \in TimeMail
    BY <1>3 DEF TimeMail
  <2> QED
    BY <1>1, <1>8, <2>1, AppendIs
<1>10. \A i \in 1..Len(k.down) : (i \in 1..Len(l.down) /\ k.down[i] = l.down[i]) \/ (i = Len(l.down) + 1 /\ k.down[i] = p)
  BY <1>9
<1>11. \A i \in 1..Len(l.down) : i \in 1..Len(k.down)
  BY <1>9
<1>12. \A i \in 1..Len(k.asked) : k.asked[i] = l.asked[i + 1] /\ i + 1 \in 1..Len(l.asked) /\ 1 < i + 1
  BY <1>2, <1>8
<1>13. ASSUME NEW r \in InFlight(k) PROVE r \in InFlight(l)
  <2>1. CASE \E i \in 1..Len(k.asked) : k.asked[i] = r
    BY <1>1, <1>12, <2>1, InFlightIs
  <2>2. CASE \E i \in 1..Len(k.down) : IsPage(k.down[i]) /\ k.down[i].request = r
    <3>1. PICK i \in 1..Len(k.down) : IsPage(k.down[i]) /\ k.down[i].request = r
      BY <2>2
    <3>2. CASE i \in 1..Len(l.down) /\ k.down[i] = l.down[i]
      BY <1>1, <3>1, <3>2, InFlightIs
    <3>3. CASE k.down[i] = p
      BY <1>1, <1>2, <1>3, <3>1, <3>3, InFlightIs
    <3> QED
      BY <1>10, <3>2, <3>3
  <2> QED
    BY <1>8, <2>1, <2>2, InFlightIs
<1>14. ASSUME NEW r \in InFlight(l) PROVE r \in InFlight(k)
  <2>1. CASE \E i \in 1..Len(l.asked) : l.asked[i] = r
    <3>1. PICK i \in 1..Len(l.asked) : l.asked[i] = r
      BY <2>1
    <3>2. CASE i = 1
      <4>1. Len(l.down) + 1 \in 1..Len(k.down)
        BY <1>9
      <4> QED
        BY <1>3, <1>8, <1>9, <3>1, <3>2, <4>1, InFlightIs DEF IsPage
    <3>3. CASE i # 1
      <4>1. i - 1 \in 1..Len(Tail(l.asked)) /\ (i - 1) + 1 = i
        BY <1>2, <3>3
      <4>2. i - 1 \in 1..Len(k.asked) /\ k.asked[i - 1] = r
        BY <1>2, <1>8, <3>1, <4>1
      <4> QED
        BY <1>8, <4>2, InFlightIs
    <3> QED
      BY <3>2, <3>3
  <2>2. CASE \E i \in 1..Len(l.down) : IsPage(l.down[i]) /\ l.down[i].request = r
    <3>1. PICK i \in 1..Len(l.down) : IsPage(l.down[i]) /\ l.down[i].request = r
      BY <2>2
    <3>2. i \in 1..Len(k.down) /\ IsPage(k.down[i]) /\ k.down[i].request = r
      BY <1>9, <1>11, <3>1
    <3> QED
      BY <1>8, <3>2, InFlightIs
  <2> QED
    BY <1>1, <2>1, <2>2, InFlightIs
<1>15. ASSUME NEW b, NoneBehind(l, b) PROVE NoneBehind(k, b)
  <2>1. ASSUME NEW i \in 1..Len(k.asked), NEW j \in 1..Len(k.asked), i < j, k.asked[i] = b
        PROVE  ~IsAfter(k.asked[j])
    <3>1. /\ k.asked[i] = l.asked[i + 1] /\ i + 1 \in 1..Len(l.asked)
          /\ k.asked[j] = l.asked[j + 1] /\ j + 1 \in 1..Len(l.asked) /\ i + 1 < j + 1
      BY <1>12, <2>1
    <3> QED
      BY <1>15, <2>1, <3>1 DEF NoneBehind
  <2>2. ASSUME NEW i \in 1..Len(k.down), IsPage(k.down[i]), k.down[i].request = b
        PROVE  /\ \A j \in 1..Len(k.down) : i < j /\ IsPage(k.down[j]) => ~IsAfter(k.down[j].request)
               /\ \A j \in 1..Len(k.asked) : ~IsAfter(k.asked[j])
    <3>1. CASE i \in 1..Len(l.down) /\ k.down[i] = l.down[i]
      <4>1. /\ \A j \in 1..Len(l.down) : i < j /\ IsPage(l.down[j]) => ~IsAfter(l.down[j].request)
            /\ \A j \in 1..Len(l.asked) : ~IsAfter(l.asked[j])
        BY <1>15, <2>2, <3>1 DEF NoneBehind
      <4>2. ~IsAfter(p.request)
        BY <1>2, <1>3, <4>1
      <4> QED
        BY <1>10, <1>12, <4>1, <4>2
    <3>2. CASE i = Len(l.down) + 1 /\ k.down[i] = p
      <4>1. \A j \in 1..Len(l.asked) : 1 < j => ~IsAfter(l.asked[j])
        BY <1>2, <1>3, <1>15, <2>2, <3>2 DEF NoneBehind
      <4>2. \A j \in 1..Len(k.down) : ~(i < j)
        BY <1>9, <3>2
      <4> QED
        BY <1>12, <4>1, <4>2
    <3> QED
      BY <1>10, <3>1, <3>2
  <2> QED
    BY <2>1, <2>2 DEF NoneBehind
<1>16. PagesOK(t, k, c)
  <2> SUFFICES ASSUME NEW j \in 1..Len(k.down), IsPage(k.down[j])
               PROVE  \/ Rest(t, k.down, j, k.down[j].epoch, k.down[j].last)
                      \/ /\ c.member # "acknowledged"
                         /\ \A i \in 1..j : k.down[i].kind # "acknowledged"
    BY DEF PagesOK
  <2>1. CASE j = Len(l.down) + 1 /\ k.down[j] = p
    <3>1. j = Len(k.down) /\ j \in Nat
      BY <1>9, <2>1
    <3> HIDE DEF t
    <3> QED
      BY <1>1, <1>3, <2>1, <3>1, RestNone
  <2>2. CASE j \in 1..Len(l.down) /\ k.down[j] = l.down[j]
    <3>1. CASE Rest(t, l.down, j, l.down[j].epoch, l.down[j].last)
      <4> DEFINE d == l.down
                 x == l.down[j].epoch
                 n == l.down[j].last
      <4>1. l.down[j] \in TimePages
        BY <1>1, <2>2, MailIs
      <4>2. /\ d \in Seq(TimeMail) /\ j \in 0..Len(d) /\ x \in Nat /\ n \in Nat /\ Rest(t, d, j, x, n)
            /\ p \in TimeMail /\ ~IsRow(p)
        BY <1>1, <1>3, <1>9, <2>2, <3>1, <4>1 DEF TimePages, TimeMail, IsRow
      <4> HIDE DEF d, x, n, t
      <4>3. Rest(t, Append(d, p), j, x, n)
        BY <1>1, <4>2, RestAppend
      <4> QED
        BY <1>8, <2>2, <4>3 DEF d, x, n
    <3>2. CASE /\ c.member # "acknowledged"
               /\ \A i \in 1..j : l.down[i].kind # "acknowledged"
      BY <1>9, <2>2, <3>2
    <3> QED
      BY <1>1, <2>2, <3>1, <3>2 DEF PagesOK
  <2> QED
    BY <1>10, <2>1, <2>2
<1>17. CompleteOK(t, k, c)
  <2> DEFINE d == l.down
             x == c.range.epoch
             n == c.range.to
  <2>1. /\ d \in Seq(TimeMail) /\ 0 \in 0..Len(d) /\ x \in Nat /\ n \in Nat
        /\ p \in TimeMail /\ ~IsRow(p)
    BY <1>1, <1>3, <1>9 DEF TimeMail, IsRow, Chats, Ranges
  <2> HIDE DEF d, x, n, t
  <2>2. Rest(t, d, 0, x, n) => Rest(t, Append(d, p), 0, x, n)
    BY <1>1, <2>1, RestAppend
  <2> QED
    BY <1>1, <1>8, <2>2 DEF CompleteOK, d, x, n
<1>18. TimelineAt(t, k, c)
  <2>1. InFlight(k) \subseteq InFlight(l)
    BY <1>13
  <2>2. c.member = "acknowledged" => k.subscribed
    BY <1>1, <1>8 DEF MemberOK
  <2>3. c.member # "acknowledged" /\ k.subscribed => ToAcknowledge(k.down)
    BY <1>1, <1>8 DEF MemberOK
  <2>4. TimelineAt(t, l, c) /\ t \in Times /\ k \in TimeLinks /\ k.up = l.up /\ LineOK(t, k)
    BY <1>1, <1>8
  <2>5. \A e, n \in Nat : KnownOK(t, l, e, n) => KnownOK(t, k, e, n)
    BY <1>7, <1>8
  <2> HIDE DEF t, l, c
  <2> QED
    BY <1>15, <1>16, <1>17, <2>1, <2>2, <2>3, <2>4, <2>5, Carried
<1> QED
  BY <1>1, <1>6, <1>14, <1>18 DEF Awaited

\* The acknowledgement goes out before anything the subscription brings
LEMMA SubscribesStep ==
    ASSUME TimelineAt(timeline, link, chat), Awaited(link, chat), Subscribes
    PROVE  TimelineAt(timeline', link', chat) /\ Awaited(link', chat)
<1> DEFINE t == timeline
           l == link
           c == chat
           Ack == [kind |-> "acknowledged"]
           Ref == [kind |-> "refused"]
           a == [l EXCEPT !.subscribed = TRUE]
<1>1. /\ t \in Times /\ l \in TimeLinks /\ c \in Chats /\ LineOK(t, l) /\ MemberOK(t, l, c)
      /\ PagesOK(t, l, c) /\ CompleteOK(t, l, c) /\ l.asked \in Seq(Fetched) /\ l.down \in Seq(TimeMail)
      /\ timeline' = t /\ TimelineAt(t, l, c) /\ Len(l.down) \in Nat /\ DOMAIN l.down = 1..Len(l.down)
  BY DEF TimelineAt, TimeLinks, Subscribes
<1>2. c.member = "asking" /\ l.up /\ ~l.subscribed
      /\ \A i \in 1..Len(l.down) : l.down[i].kind = "page"
  <2>1. \A i \in 1..Len(l.down) : l.down[i].kind # "refused" /\ l.down[i].kind \in {"page", "refused"}
    BY <1>1 DEF Subscribes, LineOK
  <2> QED
    BY <2>1 DEF Subscribes
<1>3. c.catchUp.status = "none" /\ c.member # "acknowledged"
  BY <1>1, <1>2 DEF MemberOK, NoCatchUp
<1>4. link' = With(a, Ack) \/ link' = With(l, Ref)
  BY DEF Subscribes, With
<1>5. /\ Ack \in TimeMail /\ Ref \in TimeMail /\ MailOK(Ack) /\ MailOK(Ref)
      /\ ~IsTold(Ack) /\ ~IsTold(Ref) /\ ~IsPage(Ack) /\ ~IsPage(Ref)
      /\ Ack.kind = "acknowledged" /\ Ref.kind = "refused"
  BY DEF TimeMail, TimeWords, MailOK, IsTold, IsPage, IsRow
<1>6. UpTo(t.epoch, t.last, t.epoch, t.last)
  BY <1>1 DEF Times, UpTo
<1>7. /\ a \in TimeLinks /\ a.up = l.up /\ a.subscribed /\ a.down = l.down /\ a.asked = l.asked
      /\ LineOK(t, a) /\ InFlight(a) = InFlight(l)
  <2>1. /\ a \in TimeLinks /\ a.up = l.up /\ a.subscribed /\ a.down = l.down /\ a.asked = l.asked
    BY <1>1 DEF TimeLinks
  <2>2. InFlight(a) = InFlight(l)
    BY <2>1 DEF InFlight
  <2> HIDE DEF a
  <2> QED
    BY <1>1, <1>2, <2>1, <2>2 DEF LineOK
<1> HIDE DEF Ack, Ref, a
<1>8. ASSUME NEW b, NEW m, b = l \/ b = a, m = Ack \/ m = Ref, m = Ack => b = a, m = Ref => b = l,
             link' = With(b, m)
      PROVE  TimelineAt(t, link', c) /\ Awaited(link', c)
  <2> DEFINE k == With(b, m)
  <2>1. /\ b \in TimeLinks /\ b.up /\ b.down = l.down /\ b.asked = l.asked /\ LineOK(t, b)
        /\ m \in TimeMail /\ MailOK(m) /\ ~IsPage(m) /\ ~IsTold(m)
        /\ (b.subscribed => m.kind # "refused") /\ (~b.subscribed => m.kind \in {"page", "refused"})
        /\ b.subscribed <=> m = Ack
        /\ InFlight(b) = InFlight(l)
    BY <1>1, <1>2, <1>5, <1>7, <1>8
  <2>2. \A e, n : KnownOK(t, l, e, n) => KnownOK(t, b, e, n)
    BY <2>1 DEF KnownOK
  <2>3. \A x : NoneBehind(l, x) => NoneBehind(b, x)
    BY <2>1 DEF NoneBehind
  <2>4. /\ k \in TimeLinks /\ k.up = b.up /\ k.subscribed = b.subscribed /\ k.asked = b.asked
        /\ k.down = Append(b.down, m) /\ LineOK(t, k)
        /\ \A e, n \in Nat : KnownOK(t, b, e, n) => KnownOK(t, k, e, n)
        /\ InFlight(k) = InFlight(b) /\ \A x : NoneBehind(b, x) => NoneBehind(k, x)
    <3>1. IsTold(m) => m.epoch = t.epoch /\ PointOf(m) = t.last
      BY <2>1
    <3> HIDE DEF t
    <3> QED
      BY <1>1, <1>6, <2>1, <3>1, LineAppend
  <2> HIDE DEF k
  <2>5. /\ Len(k.down) = Len(l.down) + 1
        /\ \A i \in 1..Len(l.down) : k.down[i] = l.down[i]
        /\ k.down[Len(l.down) + 1] = m
    BY <1>1, <2>1, <2>4, AppendIs
  <2>6. PagesOK(t, k, c)
    <3> SUFFICES ASSUME NEW j \in 1..Len(k.down), IsPage(k.down[j])
                 PROVE  \A i \in 1..j : k.down[i].kind # "acknowledged"
      BY <1>3 DEF PagesOK
    <3>1. j \in 1..Len(l.down)
      BY <1>1, <2>1, <2>5
    <3>2. \A i \in 1..j : i \in 1..Len(l.down) /\ k.down[i] = l.down[i]
      BY <1>1, <2>5, <3>1
    <3> QED
      BY <1>2, <3>2
  <2>7. CompleteOK(t, k, c)
    BY <1>3 DEF CompleteOK
  <2>8. k.subscribed => ToAcknowledge(k.down)
    <3> SUFFICES ASSUME k.subscribed PROVE ToAcknowledge(k.down)
      OBVIOUS
    <3>1. m.kind = "acknowledged"
      BY <1>5, <2>1, <2>4
    <3>2. Len(l.down) + 1 \in 1..Len(k.down)
      BY <1>1, <2>5
    <3>3. \A j \in 1..Len(l.down) + 1 : k.down[j].kind \in {"page", "acknowledged"}
      <4>1. \A j \in 1..Len(l.down) + 1 : j \in 1..Len(l.down) \/ j = Len(l.down) + 1
        BY <1>1
      <4> QED
        BY <1>2, <2>5, <3>1, <4>1
    <3> QED
      BY <2>5, <3>1, <3>2, <3>3 DEF ToAcknowledge
  <2>9. TimelineAt(t, k, c)
    <3>1. /\ k.up = l.up /\ InFlight(k) \subseteq InFlight(l)
          /\ \A x : NoneBehind(l, x) => NoneBehind(k, x)
          /\ \A e, n \in Nat : KnownOK(t, l, e, n) => KnownOK(t, k, e, n)
      BY <1>2, <2>1, <2>2, <2>3, <2>4
    <3> HIDE DEF t, l, c
    <3> QED
      BY <1>1, <1>3, <2>4, <2>6, <2>7, <2>8, <3>1, Carried
  <2>10. InFlight(link') = InFlight(l)
    BY <1>8, <2>1, <2>4 DEF k
  <2> QED
    BY <1>8, <2>9, <2>10 DEF Awaited, k
<1>9. CASE link' = With(a, Ack)
  <2>1. a = a /\ Ack = Ack /\ Ack # Ref
    BY <1>5
  <2>2. TimelineAt(t, link', c) /\ Awaited(link', c)
    BY <1>8, <1>9, <2>1
  <2> QED
    BY <1>1, <2>2
<1>10. CASE link' = With(l, Ref)
  <2>1. l = l /\ Ref = Ref /\ Ack # Ref
    BY <1>5
  <2>2. TimelineAt(t, link', c) /\ Awaited(link', c)
    BY <1>8, <1>10, <2>1
  <2> QED
    BY <1>1, <2>2
<1> QED
  BY <1>4, <1>9, <1>10
-----------------------------------------------------------------------------
(* The requests that the app asks for *)
AskedToo(l, r) == [l EXCEPT !.asked = Append(@, r)]

\* One request more is in flight
LEMMA AskingIs ==
    ASSUME NEW l \in TimeLinks, NEW r \in Fetched
    PROVE  /\ AskedToo(l, r) \in TimeLinks /\ AskedToo(l, r).up = l.up /\ AskedToo(l, r).subscribed = l.subscribed /\ AskedToo(l, r).down = l.down
           /\ AskedToo(l, r).asked = Append(l.asked, r)
           /\ Len(AskedToo(l, r).asked) = Len(l.asked) + 1 /\ Len(l.asked) \in Nat
           /\ \A i \in 1..Len(AskedToo(l, r).asked) : (i \in 1..Len(l.asked) /\ AskedToo(l, r).asked[i] = l.asked[i])
                                         \/ (i = Len(l.asked) + 1 /\ AskedToo(l, r).asked[i] = r)
           /\ \A x : x \in InFlight(AskedToo(l, r)) <=> x \in InFlight(l) \/ x = r
<1> DEFINE k == AskedToo(l, r)
<1>1. l.asked \in Seq(Fetched) /\ l.down \in Seq(TimeMail)
  BY DEF TimeLinks
<1>2. /\ Append(l.asked, r) \in Seq(Fetched) /\ Len(Append(l.asked, r)) = Len(l.asked) + 1
      /\ Len(l.asked) \in Nat
      /\ \A i \in 1..Len(l.asked) : Append(l.asked, r)[i] = l.asked[i]
      /\ Append(l.asked, r)[Len(l.asked) + 1] = r
  BY <1>1, AppendIs
<1>3. /\ k \in TimeLinks /\ k.up = l.up /\ k.subscribed = l.subscribed /\ k.down = l.down
      /\ k.asked = Append(l.asked, r)
  BY <1>2 DEF TimeLinks, AskedToo
<1> HIDE DEF k
<1>4. \A i \in 1..Len(k.asked) : (i \in 1..Len(l.asked) /\ k.asked[i] = l.asked[i])
                                 \/ (i = Len(l.asked) + 1 /\ k.asked[i] = r)
  BY <1>2, <1>3
<1>5. \A i \in 1..Len(l.asked) : i \in 1..Len(k.asked) /\ k.asked[i] = l.asked[i]
  BY <1>2, <1>3
<1>6. Len(l.asked) + 1 \in 1..Len(k.asked) /\ k.asked[Len(l.asked) + 1] = r
  BY <1>2, <1>3
<1>7. ASSUME NEW x PROVE x \in InFlight(k) <=> x \in InFlight(l) \/ x = r
  <2>1. x \in InFlight(k) <=> \/ \E i \in 1..Len(k.asked) : k.asked[i] = x
                              \/ \E i \in 1..Len(k.down) : IsPage(k.down[i]) /\ k.down[i].request = x
    BY <1>3, InFlightIs
  <2>2. x \in InFlight(l) <=> \/ \E i \in 1..Len(l.asked) : l.asked[i] = x
                              \/ \E i \in 1..Len(l.down) : IsPage(l.down[i]) /\ l.down[i].request = x
    BY InFlightIs
  <2>3. (\E i \in 1..Len(k.asked) : k.asked[i] = x) <=> (\E i \in 1..Len(l.asked) : l.asked[i] = x) \/ x = r
    BY <1>4, <1>5, <1>6
  <2>4. k.down = l.down
    BY <1>3
  <2> HIDE DEF IsPage
  <2> QED
    BY <2>1, <2>2, <2>3, <2>4
<1> QED
  BY <1>2, <1>3, <1>4, <1>7 DEF k

\* A request that is wanted is one that may be asked for
LEMMA WantedIs ==
    ASSUME NEW t, NEW l, NEW c, TimelineAt(t, l, c), NEW r, Wants(c, r)
    PROVE  /\ r \in Fetched /\ RequestOK(r) /\ l.up
           /\ IsAfter(r) => c.catchUp.status = "running" /\ c.catchUp.at = r
           /\ c.member # "acknowledged" => IsBefore(r) /\ c.synced
           /\ ~c.synced => r = LatestRows \/ r = ResumeRequest(c)
<1>1. /\ c \in Chats /\ MemberOK(t, l, c) /\ CatchUpOK(l, c) /\ (~c.synced => FreshOK(t, l, c))
  BY DEF TimelineAt
<1>2. c.catchUp.at \in Fetched /\ c.scroll \in Fetched /\ LatestRows \in Fetched
  BY <1>1 DEF Chats, CatchUps, Fetched, LatestRows
<1>3. ~IsAfter(LatestRows) /\ RequestOK(LatestRows)
  BY DEF IsAfter, LatestRows, RequestOK
<1>4. c.catchUp = NoCatchUp => c.catchUp.status = "none"
  BY DEF NoCatchUp
<1>5. CASE c.catchUp.status = "running" /\ c.catchUp.at = r
  <2>1. c.member = "acknowledged"
    BY <1>1, <1>4, <1>5 DEF MemberOK
  <2>2. RequestOK(r)
    BY <1>1, <1>5 DEF CatchUpOK, Bound
  <2>3. l.up
    BY <1>1, <2>1 DEF MemberOK
  <2>4. ~c.synced => r = LatestRows \/ r = ResumeRequest(c)
    BY <1>1, <1>5 DEF FreshOK
  <2> QED
    BY <1>2, <1>5, <2>1, <2>2, <2>3, <2>4
<1>6. CASE c.replacing /\ r = LatestRows
  <2>1. c.member = "acknowledged" /\ l.up
    BY <1>1, <1>6 DEF MemberOK
  <2> QED
    BY <1>2, <1>3, <1>6, <2>1
<1>7. CASE c.scroll = r /\ r # NoRequest
  <2>1. RequestOK(r) /\ IsBefore(r) /\ l.up
    BY <1>1, <1>7 DEF MemberOK
  <2>2. ~IsAfter(r)
    BY <2>1 DEF IsAfter, IsBefore
  <2>3. c.synced
    BY <1>1, <1>7 DEF FreshOK
  <2> QED
    BY <1>2, <1>7, <2>1, <2>2, <2>3
<1> QED
  BY <1>5, <1>6, <1>7 DEF Wants

\* To ask for what is wanted, once, disturbs nothing
LEMMA AskingOne ==
    ASSUME NEW t, NEW l, NEW c, TimelineAt(t, l, c), NEW r
    PROVE  /\ TimelineAt(t, Asking(l, c, r), c) /\ InFlight(l) \subseteq InFlight(Asking(l, c, r))
           /\ Wants(c, r) => r \in InFlight(Asking(l, c, r))
<1> DEFINE k == Asking(l, c, r)
<1>1. CASE ~(Wants(c, r) /\ r \notin InFlight(l))
  BY <1>1 DEF Asking
<1>2. CASE Wants(c, r) /\ r \notin InFlight(l)
  <2>1. /\ r \in Fetched /\ RequestOK(r) /\ l.up
        /\ IsAfter(r) => c.catchUp.status = "running" /\ c.catchUp.at = r
        /\ c.member # "acknowledged" => IsBefore(r) /\ c.synced
        /\ ~c.synced => r = LatestRows \/ r = ResumeRequest(c)
    BY <1>2, WantedIs
  <2>2. /\ t \in Times /\ l \in TimeLinks /\ c \in Chats
        /\ LineOK(t, l) /\ MemberOK(t, l, c) /\ PagesOK(t, l, c) /\ CatchUpOK(l, c)
        /\ CompleteOK(t, l, c)
        /\ c.synced => SyncedOK(t, l, c)
        /\ ~c.synced => FreshOK(t, l, c)
    BY DEF TimelineAt
  <2>3. k = AskedToo(l, r)
    BY <1>2 DEF Asking, AskedToo
  <2> HIDE DEF k
  <2>18. /\ AskedToo(l, r) \in TimeLinks /\ AskedToo(l, r).up = l.up
         /\ AskedToo(l, r).subscribed = l.subscribed /\ AskedToo(l, r).down = l.down
         /\ AskedToo(l, r).asked = Append(l.asked, r)
         /\ Len(AskedToo(l, r).asked) = Len(l.asked) + 1 /\ Len(l.asked) \in Nat
         /\ \A i \in 1..Len(AskedToo(l, r).asked) :
              (i \in 1..Len(l.asked) /\ AskedToo(l, r).asked[i] = l.asked[i])
              \/ (i = Len(l.asked) + 1 /\ AskedToo(l, r).asked[i] = r)
         /\ \A x : x \in InFlight(AskedToo(l, r)) <=> x \in InFlight(l) \/ x = r
    BY <2>1, <2>2, AskingIs
  <2>4. /\ k \in TimeLinks /\ k.up = l.up /\ k.subscribed = l.subscribed /\ k.down = l.down
        /\ k.asked = Append(l.asked, r)
        /\ Len(k.asked) = Len(l.asked) + 1 /\ Len(l.asked) \in Nat
        /\ \A i \in 1..Len(k.asked) : (i \in 1..Len(l.asked) /\ k.asked[i] = l.asked[i])
                                      \/ (i = Len(l.asked) + 1 /\ k.asked[i] = r)
        /\ \A x : x \in InFlight(k) <=> x \in InFlight(l) \/ x = r
    BY <2>3, <2>18
  <2>5. LineOK(t, k)
    BY <2>1, <2>2, <2>4 DEF LineOK
  <2>6. MemberOK(t, k, c)
    BY <2>1, <2>2, <2>4 DEF MemberOK
  <2>7. PagesOK(t, k, c) /\ CompleteOK(t, k, c)
    BY <2>2, <2>4 DEF PagesOK, CompleteOK
  <2>8. \A e, n : KnownOK(t, l, e, n) => KnownOK(t, k, e, n)
    BY <2>4 DEF KnownOK
  <2>9. ~IsAfter(r) => (NoAfter(l) => NoAfter(k)) /\ \A e, n : AfterUpTo(l, e, n) => AfterUpTo(k, e, n)
    BY <2>4 DEF NoAfter, AfterUpTo
  <2>10. ASSUME NEW b, NoneBehind(l, b), r = b \/ ~IsAfter(r), NEW s, s = r, s \notin InFlight(l)
         PROVE  NoneBehind(k, b)
    <3>1. CASE r # b
      <4>1. ~IsAfter(r)
        BY <2>10, <3>1
      <4>2. ASSUME NEW i \in 1..Len(k.asked), NEW j \in 1..Len(k.asked), i < j, k.asked[i] = b
            PROVE  ~IsAfter(k.asked[j])
        <5>1. i \in 1..Len(l.asked) /\ k.asked[i] = l.asked[i]
          BY <2>4, <3>1, <4>2
        <5>2. CASE j \in 1..Len(l.asked) /\ k.asked[j] = l.asked[j]
          BY <2>10, <4>2, <5>1, <5>2 DEF NoneBehind
        <5>3. CASE k.asked[j] = r
          BY <4>1, <5>3
        <5> QED
          BY <2>4, <5>2, <5>3
      <4>3. ASSUME NEW i \in 1..Len(k.down), IsPage(k.down[i]), k.down[i].request = b
            PROVE  /\ \A j \in 1..Len(k.down) : i < j /\ IsPage(k.down[j]) => ~IsAfter(k.down[j].request)
                   /\ \A j \in 1..Len(k.asked) : ~IsAfter(k.asked[j])
        BY <2>4, <2>10, <4>1, <4>3 DEF NoneBehind
      <4> QED
        BY <4>2, <4>3 DEF NoneBehind
    <3>2. CASE r = b
      <4>1. /\ \A i \in 1..Len(l.asked) : l.asked[i] # b
            /\ \A i \in 1..Len(l.down) : ~(IsPage(l.down[i]) /\ l.down[i].request = b)
        BY <1>2, <2>2, <3>2, InFlightIs
      <4>2. ASSUME NEW i \in 1..Len(k.asked), NEW j \in 1..Len(k.asked), i < j, k.asked[i] = b
            PROVE  FALSE
        BY <2>4, <4>1, <4>2
      <4> QED
        BY <2>4, <4>1, <4>2 DEF NoneBehind
    <3> QED
      BY <3>1, <3>2
  <2>11. IsAfter(r) => Bound(c) = r
    BY <2>1 DEF Bound
  <2>12. ASSUME NEW b, b = Bound(c), LastAfter(l, b), b.epoch \in Nat, b.seq \in Nat
         PROVE  LastAfter(k, b)
    <3>1. NoneBehind(k, b)
      BY <1>2, <2>10, <2>11, <2>12 DEF LastAfter
    <3>2. AfterUpTo(k, b.epoch, b.seq)
      BY <2>4, <2>11, <2>12 DEF LastAfter, AfterUpTo, UpTo
    <3> QED
      BY <3>1, <3>2 DEF LastAfter
  <2>13. Bound(c) \in Fetched
    BY <2>2 DEF Chats, CatchUps, Bound
  <2>14. CatchUpOK(k, c)
    <3>1. Bound(c).epoch \in Nat /\ Bound(c).seq \in Nat
      BY <2>13 DEF Fetched
    <3>2. c.catchUp.status \in {"none", "complete"} => NoAfter(k)
      BY <2>1, <2>2, <2>9 DEF CatchUpOK
    <3>3. c.catchUp.status \in {"running", "error"} /\ ~IsAfter(Bound(c)) => NoAfter(k)
      BY <2>2, <2>9, <2>11 DEF CatchUpOK
    <3>4. c.catchUp.status \in {"running", "error"} /\ IsAfter(Bound(c)) => LastAfter(k, Bound(c))
      BY <2>2, <2>12, <3>1 DEF CatchUpOK
    <3> QED
      BY <2>2, <3>2, <3>3, <3>4 DEF CatchUpOK
  <2>15. ASSUME c.synced PROVE SyncedOK(t, k, c)
    <3>1. SyncedOK(t, l, c)
      BY <2>2, <2>15
    <3>2. KnownOK(t, k, c.range.epoch, c.range.to)
      BY <2>8, <3>1 DEF SyncedOK
    <3>3. AfterUpTo(k, c.range.epoch, c.range.to)
      BY <2>1, <2>4, <3>1 DEF SyncedOK, AfterUpTo
    <3> QED
      BY <3>1, <3>2, <3>3 DEF SyncedOK
  <2>16. ASSUME ~c.synced PROVE FreshOK(t, k, c)
    <3>1. FreshOK(t, l, c)
      BY <2>2, <2>16
    <3>2. \A x \in c.rows \cup c.overlay : EarlyOK(t, k, x)
      BY <2>8, <3>1 DEF FreshOK, EarlyOK
    <3>3. \A x \in InFlight(k) : x = LatestRows \/ x = ResumeRequest(c)
      BY <2>1, <2>4, <2>16, <3>1 DEF FreshOK
    <3>4. c.member # "acknowledged" => InFlight(k) = {}
      BY <2>1, <2>16
    <3> QED
      BY <3>1, <3>2, <3>3, <3>4 DEF FreshOK
  <2>17. TimelineAt(t, k, c)
    BY <2>2, <2>4, <2>5, <2>6, <2>7, <2>14, <2>15, <2>16 DEF TimelineAt
  <2> QED
    BY <2>4, <2>17 DEF k
<1> QED
  BY <1>1, <1>2

\* Everything the chat waits for is asked for
LEMMA AsksForAll ==
    ASSUME NEW t, NEW l, NEW c, TimelineAt(t, l, c)
    PROVE  TimelineAt(t, AsksFor(l, c), c) /\ Awaited(AsksFor(l, c), c)
<1> DEFINE a == Asking(l, c, c.catchUp.at)
           b == Asking(a, c, LatestRows)
           d == Asking(b, c, c.scroll)
<1>1. /\ TimelineAt(t, a, c)
      /\ Wants(c, c.catchUp.at) => c.catchUp.at \in InFlight(a)
  BY AskingOne
<1> HIDE DEF a
<1>2. /\ TimelineAt(t, b, c) /\ InFlight(a) \subseteq InFlight(b)
      /\ Wants(c, LatestRows) => LatestRows \in InFlight(b)
  BY <1>1, AskingOne
<1> HIDE DEF b
<1>3. TimelineAt(t, d, c) /\ InFlight(b) \subseteq InFlight(d)
  BY <1>2, AskingOne
<1>4. AsksFor(l, c) = d
  BY DEF AsksFor, a, b
<1> HIDE DEF d
<1>5. c.catchUp.status = "running" => c.catchUp.at \in InFlight(d)
  BY <1>1, <1>2, <1>3 DEF Wants
<1>6. c.replacing => LatestRows \in InFlight(d)
  BY <1>2, <1>3 DEF Wants
<1> QED
  BY <1>3, <1>4, <1>5, <1>6 DEF Awaited
-----------------------------------------------------------------------------
(* Catch-ups begin *)
KeepsStore(c, d) ==
    /\ d.member = c.member /\ d.synced = c.synced /\ d.rows = c.rows /\ d.overlay = c.overlay
    /\ d.range = c.range /\ d.older = c.older /\ d.newer = c.newer
    /\ d.replacing = c.replacing /\ d.scroll = c.scroll /\ d.forced = c.forced

Begun(request, fallback) ==
    [status |-> "running", request |-> request, at |-> request, fallback |-> fallback,
     forcing |-> FALSE]

\* What begins with a catch-up
LEMMA BeginsIs ==
    ASSUME NEW c \in Chats, NEW next \in Fetched, NEW fallback \in BOOLEAN
    PROVE  /\ BeginsCatchUp(c, next, fallback) \in Chats
           /\ KeepsStore(c, BeginsCatchUp(c, next, fallback))
           /\ BeginsCatchUp(c, next, fallback).owed = NoRequest
           /\ BeginsCatchUp(c, next, fallback).catchUp = Begun(next, fallback)
           /\ ~c.synced /\ next.dir # "none" => BeginsCatchUp(c, next, fallback).init # "none"
<1> DEFINE b == [c EXCEPT !.owed = NoRequest, !.catchUp = Begun(next, fallback)]
<1>1. NoRequest \in Fetched /\ Begun(next, fallback) \in CatchUps
      /\ next.dir \in {"none", "tail", "after", "before"}
  BY DEF NoRequest, Fetched, Begun, CatchUps
<1>2. b \in Chats /\ KeepsStore(c, b) /\ b.owed = NoRequest /\ b.catchUp = Begun(next, fallback)
      /\ b.init = c.init
  BY <1>1 DEF Chats, KeepsStore
<1>3. BeginsCatchUp(c, next, fallback) = Fetches(b, next)
  BY DEF BeginsCatchUp, Begun
<1> HIDE DEF b
<1> DEFINE f == Fetches(b, next)
<1>4. /\ f \in Chats /\ KeepsStore(b, f) /\ f.owed = b.owed /\ f.catchUp = b.catchUp
      /\ f.init = IF b.synced \/ b.init # "none" THEN b.init ELSE next.dir
  BY <1>1, <1>2 DEF Fetches, Chats, KeepsStore
<1> HIDE DEF f
<1>5. KeepsStore(c, f) /\ f.owed = NoRequest /\ f.catchUp = Begun(next, fallback)
  BY <1>2, <1>4 DEF KeepsStore
<1>6. ~c.synced /\ next.dir # "none" => f.init # "none"
  BY <1>2, <1>4 DEF KeepsStore
<1> QED
  BY <1>3, <1>4, <1>5, <1>6 DEF f

Subscribed(t, l, c) ==
    /\ t \in Times /\ l \in TimeLinks /\ c \in Chats /\ LineOK(t, l) /\ PagesOK(t, l, c)
    /\ c.member = "acknowledged" /\ l.subscribed
    /\ c.scroll = NoRequest \/ (RequestOK(c.scroll) /\ IsBefore(c.scroll))

Stored(t, l, c) ==
    /\ RangeOK(c)
    /\ KnownOK(t, l, c.range.epoch, c.range.to)
    /\ AfterUpTo(l, c.range.epoch, c.range.to)

\* A chat with rows begins from a row it has
LEMMA BeginsSynced ==
    ASSUME NEW t, NEW l, NEW c, Subscribed(t, l, c), c.synced, Stored(t, l, c),
           NEW next \in Fetched, RequestOK(next), IsAfter(next), LastAfter(l, next),
           UpTo(next.epoch, next.seq, c.range.epoch, c.range.to), NEW fallback \in BOOLEAN
    PROVE  TimelineAt(t, l, BeginsCatchUp(c, next, fallback))
<1> DEFINE d == BeginsCatchUp(c, next, fallback)
<1>1. /\ d \in Chats /\ KeepsStore(c, d) /\ d.owed = NoRequest /\ d.catchUp = Begun(next, fallback)
  BY BeginsIs DEF Subscribed
<1> HIDE DEF d
<1>2. /\ d.catchUp.status = "running" /\ d.catchUp.request = next /\ d.catchUp.at = next
      /\ d.catchUp.forcing = FALSE
  BY <1>1 DEF Begun
<1>3. /\ t \in Times /\ l \in TimeLinks /\ LineOK(t, l) /\ PagesOK(t, l, c)
      /\ c.member = "acknowledged" /\ l.subscribed
  BY DEF Subscribed
<1>4. l.up
  BY <1>3 DEF LineOK, NoLink
<1>5. MemberOK(t, l, d)
  BY <1>1, <1>2, <1>3, <1>4 DEF MemberOK, KeepsStore, Subscribed
<1>6. PagesOK(t, l, d)
  BY <1>1, <1>3 DEF PagesOK, KeepsStore
<1>7. Bound(d) = next
  BY <1>2 DEF Bound
<1>8. CatchUpOK(l, d)
  BY <1>2, <1>7 DEF CatchUpOK, IsAfter, IsBefore
<1>9. CompleteOK(t, l, d)
  BY <1>2 DEF CompleteOK
<1>10. d.synced /\ SyncedOK(t, l, d)
  BY <1>1, <1>2 DEF SyncedOK, Stored, KeepsStore, RangeOK
<1>11. TimelineAt(t, l, d)
  BY <1>1, <1>3, <1>5, <1>6, <1>8, <1>9, <1>10 DEF TimelineAt
<1> QED
  BY <1>11 DEF d

\* A chat without rows begins with the tail, or after the row of the cache
LEMMA BeginsFresh ==
    ASSUME NEW t, NEW l, NEW c, Subscribed(t, l, c), ~c.synced,
           \/ c.range = NoRange /\ c.rows = {}
           \/ c.range = Span(1, 1, 1) /\ <<1, 1>> \in c.rows /\ \A r \in c.rows : r[1] = 1,
           \A r \in c.rows \cup c.overlay : EarlyOK(t, l, r),
           ~c.older, c.scroll = NoRequest, ~c.forced,
           NoAfter(l), \A r \in InFlight(l) : r = LatestRows \/ r = ResumeRequest(c),
           NEW fallback, fallback = (ResumeRequest(c).dir = "after")
    PROVE  TimelineAt(t, l, BeginsCatchUp(c, ResumeRequest(c), fallback))
<1> DEFINE d == BeginsCatchUp(c, ResumeRequest(c), fallback)
           next == ResumeRequest(c)
<1>0. /\ next \in Fetched /\ RequestOK(next) /\ ~IsBefore(next) /\ next.dir # "none"
      /\ next = LatestRows \/ next = RowsAfter(1, 1)
      /\ IsAfter(next) <=> fallback
  <2>1. next = LatestRows \/ next = RowsAfter(1, 1)
    BY DEF ResumeRequest, NoRange, Span
  <2>2. /\ next \in Fetched /\ RequestOK(next) /\ ~IsBefore(next) /\ next.dir # "none"
    BY <2>1 DEF LatestRows, RowsAfter, Fetched, RequestOK, IsAfter, IsBefore
  <2>3. IsAfter(next) <=> fallback
    BY DEF IsAfter
  <2> QED
    BY <2>1, <2>2, <2>3
<1>1. /\ d \in Chats /\ KeepsStore(c, d) /\ d.owed = NoRequest /\ d.catchUp = Begun(next, fallback)
      /\ d.init # "none"
  BY <1>0, BeginsIs DEF Subscribed
<1>2. ResumeRequest(d) = next
  BY <1>1 DEF ResumeRequest, KeepsStore
<1> HIDE DEF d, next
<1>3. /\ d.catchUp.status = "running" /\ d.catchUp.request = next /\ d.catchUp.at = next
      /\ d.catchUp.forcing = FALSE /\ d.catchUp.fallback = fallback
  BY <1>1 DEF Begun
<1>4. /\ t \in Times /\ l \in TimeLinks /\ LineOK(t, l) /\ PagesOK(t, l, c)
      /\ c.member = "acknowledged" /\ l.subscribed
  BY DEF Subscribed
<1>5. l.up
  BY <1>4 DEF LineOK, NoLink
<1>6. MemberOK(t, l, d)
  BY <1>1, <1>3, <1>4, <1>5 DEF MemberOK, KeepsStore
<1>7. PagesOK(t, l, d)
  BY <1>1, <1>4 DEF PagesOK, KeepsStore
<1>8. Bound(d) = next
  BY <1>3 DEF Bound
<1>9. IsAfter(next) => LastAfter(l, next)
  <2> SUFFICES ASSUME IsAfter(next) PROVE LastAfter(l, next)
    OBVIOUS
  <2>1. next \notin InFlight(l)
    BY DEF NoAfter
  <2>2. NoneBehind(l, next)
    BY <1>4, <2>1, InFlightIs DEF NoneBehind
  <2> QED
    BY <2>2 DEF LastAfter, AfterUpTo, NoAfter
<1>10. CatchUpOK(l, d)
  BY <1>0, <1>3, <1>8, <1>9 DEF CatchUpOK
<1>11. CompleteOK(t, l, d)
  BY <1>3 DEF CompleteOK
<1>12. ~d.synced /\ FreshOK(t, l, d)
  <2>1. \A r \in InFlight(l) : r = LatestRows \/ r = ResumeRequest(d)
    BY <1>2 DEF next
  <2>2. d.member = "acknowledged" /\ ~d.forced /\ ~d.older /\ d.scroll = NoRequest
        /\ d.range = c.range /\ d.rows = c.rows /\ d.overlay = c.overlay
    BY <1>1, <1>4 DEF KeepsStore
  <2>3. d.catchUp.fallback = IsAfter(d.catchUp.request)
    BY <1>0, <1>3 DEF IsAfter, next
  <2> QED
    BY <1>1, <1>2, <1>3, <2>1, <2>2, <2>3 DEF FreshOK, KeepsStore
<1>13. TimelineAt(t, l, d)
  BY <1>1, <1>4, <1>6, <1>7, <1>10, <1>11, <1>12 DEF TimelineAt
<1> QED
  BY <1>13 DEF d, next
\* What follows the range is the last that is asked for
LEMMA BehindRange ==
    ASSUME NEW t, NEW l \in TimeLinks, NEW c \in Chats, CatchUpOK(l, c), SyncedOK(t, l, c)
    PROVE  LastAfter(l, RowsAfter(c.range.epoch, c.range.to))
<1> DEFINE next == RowsAfter(c.range.epoch, c.range.to)
           e == c.range.epoch
           n == c.range.to
           b == Bound(c)
<1>1. next.dir = "after" /\ next.epoch = e /\ next.seq = n /\ IsAfter(next)
  BY DEF RowsAfter, IsAfter
<1>2. AfterUpTo(l, next.epoch, next.seq)
  BY <1>1 DEF SyncedOK
<1>3. CASE next \notin InFlight(l)
  <2>1. NoneBehind(l, next)
    BY <1>3, InFlightIs DEF NoneBehind
  <2> QED
    BY <1>2, <2>1 DEF LastAfter
<1>4. CASE next \in InFlight(l)
  <2>1. ~NoAfter(l)
    BY <1>1, <1>4 DEF NoAfter
  <2>2. c.catchUp.status \in {"none", "running", "complete", "error"} /\ c.catchUp.at \in Fetched
        /\ c.catchUp.request \in Fetched
    BY DEF Chats, CatchUps
  <2>3. c.catchUp.status \in {"running", "error"} /\ IsAfter(b) /\ LastAfter(l, b)
    BY <2>1, <2>2 DEF CatchUpOK
  <2>4. UpTo(b.epoch, b.seq, e, n)
    BY <2>3 DEF SyncedOK, Bound
  <2>5. b \in Fetched
    BY <2>2 DEF Bound
  <2> HIDE DEF b
  <2>6. UpTo(e, n, b.epoch, b.seq)
    BY <1>1, <1>4, <2>3 DEF LastAfter, AfterUpTo
  <2>7. e \in Nat /\ n \in Nat /\ b.epoch \in Nat /\ b.seq \in Nat
    BY <2>5 DEF Chats, Ranges, Fetched
  <2>8. b.epoch = e /\ b.seq = n
    <3> DEFINE f == b.epoch
               m == b.seq
    <3> HIDE DEF e, n, f, m
    <3>1. UpTo(f, m, e, n) /\ UpTo(e, n, f, m) /\ e \in Nat /\ n \in Nat /\ f \in Nat /\ m \in Nat
      BY <2>4, <2>6, <2>7 DEF f, m
    <3>2. f = e /\ m = n
      BY <3>1 DEF UpTo
    <3> QED
      BY <3>2 DEF f, m
  <2>9. b = [dir |-> "after", epoch |-> e, seq |-> n]
    BY <2>3, <2>5, <2>8 DEF Fetched, IsAfter
  <2> QED
    BY <2>3, <2>9 DEF RowsAfter
<1> QED
  BY <1>3, <1>4

\* What a catch-up begins with, and whether it may fall back to the tail
Sought(c, request)    == IF request = NoRequest THEN ResumeRequest(c) ELSE request
FallsBack(c, request) == request = NoRequest /\ Sought(c, request).dir = "after"

\* A catch-up that is wanted runs already, is parked behind the tail, or begins
LEMMA StartsIs ==
    ASSUME NEW c, NEW request, c.member = "acknowledged"
    PROVE  /\ c.catchUp.status = "running" /\ c.catchUp.request = Sought(c, request)
                => StartsCatchUp(c, request, TRUE) = c
           /\ c.catchUp.status = "running" /\ c.catchUp.request # Sought(c, request)
              /\ c.catchUp.request.dir = "tail"
                => StartsCatchUp(c, request, TRUE) = [c EXCEPT !.owed = Sought(c, request)]
           /\ \/ c.catchUp.status = "running" /\ c.catchUp.request = Sought(c, request)
              \/ c.catchUp.status = "running" /\ c.catchUp.request.dir = "tail"
              \/ StartsCatchUp(c, request, TRUE)
                   = BeginsCatchUp(c, Sought(c, request), FallsBack(c, request))
           /\ c.catchUp = NoCatchUp
                => StartsCatchUp(c, request, FALSE)
                     = BeginsCatchUp(c, Sought(c, request), FallsBack(c, request))
           /\ c.catchUp # NoCatchUp => StartsCatchUp(c, request, FALSE) = c
           /\ FallsBack(c, request) \in BOOLEAN
<1> DEFINE running == c.catchUp.status = "running"
           next == Sought(c, request)
           b == BeginsCatchUp(c, next, FallsBack(c, request))
<1>1. c.catchUp = NoCatchUp => ~running
  BY DEF NoCatchUp
<1>3. ASSUME NEW supersede \in BOOLEAN
      PROVE  StartsCatchUp(c, request, supersede) =
               IF c.catchUp # NoCatchUp /\ (~supersede \/ (running /\ c.catchUp.request = next)) THEN c
               ELSE IF supersede /\ running /\ c.catchUp.request # next /\ c.catchUp.request.dir = "tail"
               THEN [c EXCEPT !.owed = next] ELSE b
  <2> HIDE DEF b
  <2> QED
    BY DEF StartsCatchUp, Acknowledged, b, Sought, FallsBack
<1> HIDE DEF b
<1>4. StartsCatchUp(c, request, TRUE) =
               IF c.catchUp # NoCatchUp /\ running /\ c.catchUp.request = next THEN c
               ELSE IF running /\ c.catchUp.request # next /\ c.catchUp.request.dir = "tail"
               THEN [c EXCEPT !.owed = next] ELSE b
  BY <1>3
<1>5. StartsCatchUp(c, request, FALSE) = IF c.catchUp # NoCatchUp THEN c ELSE b
  BY <1>3
<1>6. FallsBack(c, request) \in BOOLEAN
  BY DEF FallsBack
<1> QED
  BY <1>1, <1>4, <1>5, <1>6 DEF b

\* A catch-up from the end of the rows shown, whatever runs already
LEMMA StartsBehindRange ==
    ASSUME NEW t, NEW l, NEW c, TimelineAt(t, l, c), c.synced, c.member = "acknowledged",
           NEW request, request = NoRequest \/ request = RowsAfter(c.range.epoch, c.range.to)
    PROVE  /\ TimelineAt(t, l, StartsCatchUp(c, request, TRUE))
           /\ KeepsStore(c, StartsCatchUp(c, request, TRUE))
<1> DEFINE next == RowsAfter(c.range.epoch, c.range.to)
           s == StartsCatchUp(c, request, TRUE)
           d == BeginsCatchUp(c, Sought(c, request), FallsBack(c, request))
<1>1. /\ t \in Times /\ l \in TimeLinks /\ c \in Chats
      /\ LineOK(t, l) /\ MemberOK(t, l, c) /\ PagesOK(t, l, c) /\ CatchUpOK(l, c)
      /\ CompleteOK(t, l, c) /\ SyncedOK(t, l, c)
  BY DEF TimelineAt
<1>2. Subscribed(t, l, c) /\ Stored(t, l, c)
  BY <1>1 DEF Subscribed, MemberOK, Stored, SyncedOK
<1>3. /\ next \in Fetched /\ RequestOK(next) /\ IsAfter(next) /\ next # NoRequest
      /\ UpTo(next.epoch, next.seq, c.range.epoch, c.range.to)
  <2>1. c.range.epoch \in Nat /\ c.range.to \in Nat
    BY <1>1 DEF Chats, Ranges
  <2>2. c.range.epoch # 0 /\ c.range.from \in Nat /\ c.range.from # 0 /\ c.range.from <= c.range.to
    BY <1>1 DEF Chats, Ranges, SyncedOK, RangeOK
  <2>3. c.range.to # 0
    BY <2>1, <2>2
  <2> QED
    BY <2>1, <2>2, <2>3 DEF RowsAfter, Fetched, RequestOK, IsAfter, NoRequest, UpTo
<1>4. LastAfter(l, next)
  BY <1>1, BehindRange
<1>5. Sought(c, request) = next
  <2>1. c.range # NoRange
    BY <1>1 DEF SyncedOK, RangeOK, NoRange
  <2> QED
    BY <1>3, <2>1 DEF ResumeRequest, Sought
<1>6. FallsBack(c, request) \in BOOLEAN
  BY DEF FallsBack
<1> HIDE DEF next
<1>7. TimelineAt(t, l, d) /\ KeepsStore(c, d)
  <2>1. /\ Sought(c, request) \in Fetched /\ RequestOK(Sought(c, request)) /\ IsAfter(Sought(c, request))
        /\ UpTo(Sought(c, request).epoch, Sought(c, request).seq, c.range.epoch, c.range.to)
        /\ LastAfter(l, Sought(c, request))
    BY <1>3, <1>4, <1>5
  <2> QED
    BY <1>1, <1>2, <1>6, <2>1, BeginsSynced, BeginsIs
<1> HIDE DEF d
<1>8. s = c \/ s = d
  <2>1. c.catchUp.status = "running" => c.catchUp.request.dir # "tail"
    BY <1>1 DEF SyncedOK, IsAfter
  <2>2. c.catchUp.status = "running" /\ c.catchUp.request = Sought(c, request) => s = c
    BY StartsIs
  <2>3. \/ c.catchUp.status = "running" /\ c.catchUp.request = Sought(c, request)
        \/ c.catchUp.status = "running" /\ c.catchUp.request.dir = "tail"
        \/ s = d
    BY StartsIs DEF d
  <2> QED
    BY <2>1, <2>2, <2>3
<1>9. KeepsStore(c, c)
  BY DEF KeepsStore
<1> QED
  BY <1>7, <1>8, <1>9

\* A gap is closed from the end of the rows shown
LEMMA RecoversBehindRange ==
    ASSUME NEW t, NEW l, NEW c, TimelineAt(t, l, c), c.synced, c.member = "acknowledged",
           NEW e, NEW n, e = c.range.epoch, n = c.range.to
    PROVE  TimelineAt(t, l, RecoversGap(c, e, n)) /\ KeepsStore(c, RecoversGap(c, e, n))
<1>1. KeepsStore(c, c)
  BY DEF KeepsStore
<1>2. CASE c.catchUp.status = "error"
  BY <1>1, <1>2 DEF RecoversGap
<1>3. CASE c.catchUp.status # "error"
  <2>1. RecoversGap(c, e, n) = StartsCatchUp(c, RowsAfter(e, n), TRUE)
    BY <1>3 DEF RecoversGap
  <2> QED
    BY <2>1, StartsBehindRange
<1> QED
  BY <1>2, <1>3
-----------------------------------------------------------------------------
(* The user and the connection *)

\* What is told to the user does not change what is known
LEMMA Alike ==
    ASSUME NEW t, NEW l, NEW c, NEW d \in Chats, TimelineAt(t, l, c), KeepsStore(c, d),
           d.catchUp = c.catchUp, d.owed = c.owed, ~c.synced => d.init = c.init,
           c.catchUp.status = "error" => d.error
    PROVE  TimelineAt(t, l, d)
<1>1. /\ t \in Times /\ l \in TimeLinks /\ c \in Chats
      /\ LineOK(t, l) /\ MemberOK(t, l, c) /\ PagesOK(t, l, c) /\ CatchUpOK(l, c)
      /\ CompleteOK(t, l, c) /\ (c.synced => SyncedOK(t, l, c)) /\ (~c.synced => FreshOK(t, l, c))
  BY DEF TimelineAt
<1>2. MemberOK(t, l, d)
  BY <1>1 DEF MemberOK, KeepsStore
<1>3. PagesOK(t, l, d)
  BY <1>1 DEF PagesOK, KeepsStore
<1>4. CatchUpOK(l, d)
  BY <1>1 DEF CatchUpOK, Bound
<1>5. CompleteOK(t, l, d)
  BY <1>1 DEF CompleteOK, KeepsStore
<1>6. ASSUME c.synced PROVE SyncedOK(t, l, d)
  BY <1>1, <1>6 DEF SyncedOK, RangeOK, KeepsStore
<1>7. ASSUME ~c.synced PROVE FreshOK(t, l, d)
  <2>1. ResumeRequest(d) = ResumeRequest(c)
    BY DEF ResumeRequest, KeepsStore
  <2>2. /\ d.member = c.member /\ d.rows = c.rows /\ d.overlay = c.overlay
        /\ d.range = c.range /\ d.older = c.older /\ d.scroll = c.scroll /\ d.forced = c.forced
    BY DEF KeepsStore
  <2> QED
    BY <1>1, <1>7, <2>1, <2>2 DEF FreshOK
<1>8. d.synced = c.synced
  BY DEF KeepsStore
<1> QED
  BY <1>1, <1>2, <1>3, <1>4, <1>5, <1>6, <1>7, <1>8 DEF TimelineAt

\* Any chat may be told to catch up
LEMMA StartsResume ==
    ASSUME NEW t, NEW l, NEW c, TimelineAt(t, l, c)
    PROVE  TimelineAt(t, l, StartsCatchUp(c, NoRequest, TRUE))
<1>1. MemberOK(t, l, c) /\ (~c.synced => FreshOK(t, l, c)) /\ c.catchUp.status \in {"none", "running", "complete", "error"}
  BY DEF TimelineAt, Chats, CatchUps
<1>2. CASE c.member # "acknowledged"
  BY <1>2 DEF StartsCatchUp, Acknowledged
<1>3. CASE c.member = "acknowledged" /\ c.synced
  BY <1>3, StartsBehindRange
<1>4. CASE c.member = "acknowledged" /\ ~c.synced
  <2>1. c.catchUp.status = "running" /\ c.catchUp.request = ResumeRequest(c)
    BY <1>1, <1>4 DEF MemberOK, FreshOK
  <2>2. StartsCatchUp(c, NoRequest, TRUE) = c
    BY <1>4, <2>1, StartsIs DEF Sought
  <2> QED
    BY <2>2
<1> QED
  BY <1>2, <1>3, <1>4

\* To come back to the app starts a catch-up
LEMMA ReturnsToAppStep ==
    ASSUME TimelineAt(timeline, link, chat), ReturnsToApp
    PROVE  TimelineAt(timeline', link', chat') /\ Awaited(link', chat')
<1> DEFINE c == [chat EXCEPT !.pending = TRUE]
           d == StartsCatchUp(c, NoRequest, TRUE)
<1>1. chat \in Chats /\ MemberOK(timeline, link, chat)
  BY DEF TimelineAt
<1>2. c \in Chats /\ KeepsStore(chat, c) /\ c.catchUp = chat.catchUp /\ c.owed = chat.owed /\ c.init = chat.init
      /\ c.error = chat.error
  BY <1>1 DEF Chats, KeepsStore
<1>3. AppGoes(link, d) /\ timeline' = timeline
  BY DEF ReturnsToApp
<1> HIDE DEF c
<1>4. TimelineAt(timeline, link, c)
  BY <1>1, <1>2, Alike DEF MemberOK
<1>5. TimelineAt(timeline, link, d)
  BY <1>4, StartsResume
<1> HIDE DEF d
<1>6. chat' = d /\ link' = AsksFor(link, d)
  BY <1>3 DEF AppGoes
<1> QED
  BY <1>3, <1>5, <1>6, AsksForAll

\* To scroll asks for the rows before the first one shown
LEMMA ScrollsStep ==
    ASSUME TimelineAt(timeline, link, chat), Scrolls
    PROVE  TimelineAt(timeline', link', chat') /\ Awaited(link', chat')
<1> DEFINE t == timeline
           l == link
           c == chat
           r == RowsBefore(c.range.epoch, c.range.from)
           d == [c EXCEPT !.scroll = r]
<1>1. /\ t \in Times /\ l \in TimeLinks /\ c \in Chats /\ l.up /\ c.synced
      /\ LineOK(t, l) /\ MemberOK(t, l, c) /\ PagesOK(t, l, c) /\ CatchUpOK(l, c)
      /\ CompleteOK(t, l, c) /\ SyncedOK(t, l, c)
  BY DEF TimelineAt, Scrolls
<1>2. r \in Fetched /\ RequestOK(r) /\ IsBefore(r)
  BY <1>1 DEF SyncedOK, RangeOK, RowsBefore, Chats, Ranges, Fetched, RequestOK, IsBefore, IsAfter
<1>3. AppGoes(l, d) /\ timeline' = timeline
  BY DEF Scrolls
<1> HIDE DEF r
<1>4. /\ d \in Chats /\ d.scroll = r /\ d.member = c.member /\ d.synced /\ d.rows = c.rows
      /\ d.overlay = c.overlay /\ d.range = c.range /\ d.older = c.older /\ d.newer = c.newer
      /\ d.replacing = c.replacing /\ d.catchUp = c.catchUp /\ d.owed = c.owed /\ d.error = c.error
  BY <1>1, <1>2 DEF Chats
<1> HIDE DEF d
<1>5. MemberOK(t, l, d)
  BY <1>1, <1>2, <1>4 DEF MemberOK
<1>6. PagesOK(t, l, d) /\ CompleteOK(t, l, d)
  BY <1>1, <1>4 DEF PagesOK, CompleteOK
<1>7. CatchUpOK(l, d)
  BY <1>1, <1>4 DEF CatchUpOK, Bound
<1>8. SyncedOK(t, l, d)
  BY <1>1, <1>4 DEF SyncedOK, RangeOK
<1>9. TimelineAt(t, l, d)
  BY <1>1, <1>4, <1>5, <1>6, <1>7, <1>8 DEF TimelineAt
<1>10. chat' = d /\ link' = AsksFor(link, d)
  BY <1>3 DEF AppGoes
<1> QED
  BY <1>3, <1>9, <1>10, AsksForAll

\* A retry starts again from what is shown
LEMMA RetriesStep ==
    ASSUME TimelineAt(timeline, link, chat), Retries
    PROVE  TimelineAt(timeline', link', chat') /\ Awaited(link', chat')
<1> DEFINE t == timeline
           l == link
           c == chat
<1>1. /\ t \in Times /\ l \in TimeLinks /\ c \in Chats /\ l.up
      /\ LineOK(t, l) /\ MemberOK(t, l, c) /\ PagesOK(t, l, c) /\ CatchUpOK(l, c)
      /\ CompleteOK(t, l, c) /\ (c.synced => SyncedOK(t, l, c)) /\ (~c.synced => FreshOK(t, l, c))
      /\ timeline' = timeline
  BY DEF TimelineAt, Retries
<1> SUFFICES ASSUME NEW d, AppGoes(l, d),
                    \/ c.member = "failed" /\ d = [c EXCEPT !.retrying = TRUE, !.member = "asking"]
                    \/ /\ c.member # "failed" /\ c.catchUp.status = "error"
                       /\ d = StartsCatchUp([c EXCEPT !.retrying = TRUE], c.catchUp.request, TRUE)
             PROVE  TimelineAt(t, l, d)
  <2>1. PICK d : /\ AppGoes(l, d)
                 /\ \/ c.member = "failed" /\ d = [c EXCEPT !.retrying = TRUE, !.member = "asking"]
                    \/ /\ c.member # "failed" /\ c.catchUp.status = "error"
                       /\ d = StartsCatchUp([c EXCEPT !.retrying = TRUE], c.catchUp.request, TRUE)
    BY DEF Retries
  <2>2. TimelineAt(t, l, d) => TimelineAt(t, AsksFor(l, d), d) /\ Awaited(AsksFor(l, d), d)
    BY AsksForAll
  <2>3. chat' = d /\ link' = AsksFor(l, d)
    BY <2>1 DEF AppGoes
  <2> QED
    BY <1>1, <2>1, <2>2, <2>3
<1>2. CASE c.member = "failed" /\ d = [c EXCEPT !.retrying = TRUE, !.member = "asking"]
  <2>1. /\ d \in Chats /\ d.scroll = c.scroll /\ d.member = "asking" /\ d.synced = c.synced /\ d.rows = c.rows
        /\ d.overlay = c.overlay /\ d.range = c.range /\ d.older = c.older /\ d.newer = c.newer
        /\ d.replacing = c.replacing /\ d.catchUp = c.catchUp /\ d.owed = c.owed /\ d.error = c.error
        /\ d.forced = c.forced /\ d.init = c.init
    BY <1>1, <1>2 DEF Chats
  <2>2. MemberOK(t, l, d)
    BY <1>1, <1>2, <2>1 DEF MemberOK
  <2>3. PagesOK(t, l, d) /\ CompleteOK(t, l, d)
    BY <1>1, <1>2, <2>1 DEF PagesOK, CompleteOK
  <2>4. CatchUpOK(l, d)
    BY <1>1, <2>1 DEF CatchUpOK, Bound
  <2>5. c.synced => SyncedOK(t, l, d)
    BY <1>1, <2>1 DEF SyncedOK, RangeOK
  <2>6. ResumeRequest(d) = ResumeRequest(c)
    BY <2>1 DEF ResumeRequest
  <2>7. ASSUME ~c.synced PROVE FreshOK(t, l, d)
    BY <1>1, <1>2, <2>1, <2>6, <2>7 DEF FreshOK
  <2> QED
    BY <1>1, <2>1, <2>2, <2>3, <2>4, <2>5, <2>7 DEF TimelineAt
<1>3. CASE /\ c.member # "failed" /\ c.catchUp.status = "error"
           /\ d = StartsCatchUp([c EXCEPT !.retrying = TRUE], c.catchUp.request, TRUE)
  <2> DEFINE a == [c EXCEPT !.retrying = TRUE]
             r == c.catchUp.request
             b == BeginsCatchUp(a, Sought(a, r), FallsBack(a, r))
  <2>1. /\ a \in Chats /\ KeepsStore(c, a) /\ a.catchUp = c.catchUp /\ a.owed = c.owed /\ a.init = c.init
        /\ a.error = c.error
    BY <1>1 DEF Chats, KeepsStore
  <2> HIDE DEF a
  <2>2. TimelineAt(t, l, a) /\ a.catchUp.status = "error"
    BY <1>1, <1>3, <2>1, Alike DEF MemberOK
  <2>3. c.member = "acknowledged" /\ c.synced
    BY <1>1, <1>3 DEF MemberOK, NoCatchUp, FreshOK
  <2>4. a.member = "acknowledged" /\ a.synced /\ MemberOK(t, l, a) /\ CatchUpOK(l, a) /\ SyncedOK(t, l, a)
    BY <2>1, <2>2, <2>3 DEF KeepsStore, TimelineAt
  <2>5. Subscribed(t, l, a) /\ Stored(t, l, a)
    BY <2>2, <2>4 DEF TimelineAt, Subscribed, Stored, MemberOK, SyncedOK
  <2>6. /\ r \in Fetched /\ RequestOK(r) /\ IsAfter(r) /\ LastAfter(l, r) /\ r # NoRequest
        /\ UpTo(r.epoch, r.seq, a.range.epoch, a.range.to)
    <3>1. r = a.catchUp.request /\ r \in Fetched
      BY <1>1, <2>1 DEF Chats, CatchUps
    <3>2. RequestOK(r) /\ IsAfter(r) /\ UpTo(r.epoch, r.seq, a.range.epoch, a.range.to)
      BY <2>2, <2>4, <3>1 DEF SyncedOK
    <3>3. Bound(a) = r
      BY <2>2, <3>1 DEF Bound
    <3>4. LastAfter(l, r)
      BY <2>2, <2>4, <3>2, <3>3 DEF CatchUpOK
    <3>5. r # NoRequest
      BY <3>2 DEF IsAfter, NoRequest
    <3> QED
      BY <3>1, <3>2, <3>4, <3>5
  <2> HIDE DEF r
  <2>7. Sought(a, r) = r /\ FallsBack(a, r) \in BOOLEAN
    BY <2>6 DEF Sought, FallsBack
  <2>8. TimelineAt(t, l, b)
    <3>1. /\ Sought(a, r) \in Fetched /\ RequestOK(Sought(a, r)) /\ IsAfter(Sought(a, r))
          /\ LastAfter(l, Sought(a, r))
          /\ UpTo(Sought(a, r).epoch, Sought(a, r).seq, a.range.epoch, a.range.to)
      BY <2>6, <2>7
    <3> QED
      BY <2>4, <2>5, <2>7, <3>1, BeginsSynced
  <2>9. StartsCatchUp(a, r, TRUE) = b
    BY <2>2, <2>4, StartsIs
  <2> QED
    BY <1>3, <2>8, <2>9 DEF a, r
<1> QED
  BY <1>2, <1>3

\* A new connection begins with nothing on it
LEMMA LinkUpStep ==
    ASSUME TimelineAt(timeline, link, chat), LinkUp
    PROVE  TimelineAt(timeline', link', chat') /\ Awaited(link', chat')
<1> DEFINE t == timeline
           l == [NoLink EXCEPT !.up = TRUE]
           c == chat
           d == [c EXCEPT !.member = "asking"]
<1>1. /\ t \in Times /\ link \in TimeLinks /\ c \in Chats /\ ~link.up /\ LineOK(t, link)
      /\ MemberOK(t, link, c) /\ CatchUpOK(link, c)
      /\ CompleteOK(t, link, c) /\ (c.synced => SyncedOK(t, link, c)) /\ (~c.synced => FreshOK(t, link, c))
      /\ timeline' = timeline /\ AppGoes(l, d)
  BY DEF TimelineAt, LinkUp
<1>2. c.member = "none"
  BY <1>1 DEF MemberOK
<1>3. /\ l.up /\ ~l.subscribed /\ l.asked = <<>> /\ l.down = <<>> /\ l \in TimeLinks
  <2>1. /\ NoLink \in TimeLinks /\ ~NoLink.subscribed /\ NoLink.asked = <<>> /\ NoLink.down = <<>>
    BY DEF NoLink, TimeLinks
  <2> QED
    BY <2>1 DEF TimeLinks
<1>4. /\ d \in Chats /\ d.scroll = c.scroll /\ d.member = "asking" /\ d.synced = c.synced /\ d.rows = c.rows
      /\ d.overlay = c.overlay /\ d.range = c.range /\ d.older = c.older /\ d.newer = c.newer
      /\ d.replacing = c.replacing /\ d.catchUp = c.catchUp /\ d.owed = c.owed /\ d.error = c.error
      /\ d.forced = c.forced /\ d.init = c.init
  BY <1>1 DEF Chats
<1>5. chat' = d /\ link' = AsksFor(l, d)
  BY <1>1 DEF AppGoes
<1> HIDE DEF d, l
<1>6. InFlight(l) = {}
  <2>1. ASSUME NEW r \in InFlight(l) PROVE FALSE
    <3>1. Len(l.asked) = 0 /\ Len(l.down) = 0
      BY <1>3
    <3>2. \/ \E i \in 1..Len(l.asked) : l.asked[i] = r
          \/ \E i \in 1..Len(l.down) : IsPage(l.down[i]) /\ l.down[i].request = r
      BY <1>3, <2>1, InFlightIs
    <3>3. \A i \in 1..0 : FALSE
      OBVIOUS
    <3> QED
      BY <3>1, <3>2, <3>3
  <2> QED
    BY <2>1
<1>7. \A i \in 1..Len(l.down) : FALSE
  BY <1>3
<1>8. \A i \in 1..Len(l.asked) : FALSE
  BY <1>3
<1>9. LineOK(t, l)
  BY <1>3, <1>7, <1>8 DEF LineOK, ToldInOrder
<1>10. MemberOK(t, l, d)
  BY <1>1, <1>2, <1>3, <1>4, <1>6 DEF MemberOK
<1>11. PagesOK(t, l, d)
  BY <1>7 DEF PagesOK
<1>12. CatchUpOK(l, d) /\ d.catchUp.status = "none"
  BY <1>6, <1>10, <1>4 DEF CatchUpOK, MemberOK, NoCatchUp, NoAfter
<1>13. CompleteOK(t, l, d)
  BY <1>12 DEF CompleteOK
<1>14. \A e, n : KnownOK(t, link, e, n) => KnownOK(t, l, e, n)
  BY <1>7 DEF KnownOK
<1>15. c.synced => SyncedOK(t, l, d)
  BY <1>1, <1>4, <1>6, <1>12, <1>14 DEF SyncedOK, RangeOK, AfterUpTo
<1>16. ASSUME ~c.synced PROVE FreshOK(t, l, d)
  <2>1. \A x \in d.rows \cup d.overlay : EarlyOK(t, l, x)
    BY <1>1, <1>4, <1>14, <1>16 DEF FreshOK, EarlyOK
  <2> QED
    BY <1>1, <1>4, <1>6, <1>12, <1>16, <2>1 DEF FreshOK
<1>17. TimelineAt(t, l, d)
  BY <1>1, <1>3, <1>4, <1>9, <1>10, <1>11, <1>12, <1>13, <1>15, <1>16 DEF TimelineAt
<1> QED
  BY <1>1, <1>5, <1>17, AsksForAll

\* A connection that is lost takes what was on it along
LEMMA LinkDownStep ==
    ASSUME TimelineAt(timeline, link, chat), LinkDown
    PROVE  TimelineAt(timeline', link', chat') /\ Awaited(link', chat')
<1> DEFINE t == timeline
           l == NoLink
           c == chat
           a == CatchUpCancelled(c)
           d == [a EXCEPT
                  !.member = "none", !.pending = TRUE, !.error = FALSE, !.retrying = FALSE,
                  !.forced = FALSE, !.init = "none", !.replacing = FALSE, !.scroll = NoRequest]
<1>1. /\ t \in Times /\ link \in TimeLinks /\ c \in Chats /\ LineOK(t, link)
      /\ MemberOK(t, link, c) /\ CatchUpOK(link, c)
      /\ CompleteOK(t, link, c) /\ (c.synced => SyncedOK(t, link, c)) /\ (~c.synced => FreshOK(t, link, c))
      /\ timeline' = timeline /\ link' = l /\ chat' = d
  BY DEF TimelineAt, LinkDown
<1>2. /\ ~l.up /\ ~l.subscribed /\ l.asked = <<>> /\ l.down = <<>> /\ l \in TimeLinks
  BY DEF NoLink, TimeLinks
<1>3. NoCatchUp \in CatchUps /\ NoRequest \in Fetched /\ NoCatchUp.status = "none"
  BY DEF NoCatchUp, CatchUps, Fetched, NoRequest
<1>4. /\ a \in Chats /\ a.synced = c.synced /\ a.rows = c.rows
      /\ a.overlay = c.overlay /\ a.range = c.range /\ a.older = c.older /\ a.newer = c.newer
      /\ a.catchUp = NoCatchUp /\ a.owed = NoRequest
  BY <1>1, <1>3 DEF Chats, CatchUpCancelled
<1> HIDE DEF a
<1>5. /\ d \in Chats /\ d.scroll = NoRequest /\ d.member = "none" /\ d.synced = c.synced /\ d.rows = c.rows
      /\ d.overlay = c.overlay /\ d.range = c.range /\ d.older = c.older /\ d.newer = c.newer
      /\ ~d.replacing /\ d.catchUp = NoCatchUp /\ d.owed = NoRequest
      /\ ~d.forced
  BY <1>3, <1>4, ZenonT(40) DEF Chats
<1> HIDE DEF d
<1>6. InFlight(l) = {}
  <2>1. ASSUME NEW r \in InFlight(l) PROVE FALSE
    <3>1. Len(l.asked) = 0 /\ Len(l.down) = 0
      BY <1>2
    <3>2. \/ \E i \in 1..Len(l.asked) : l.asked[i] = r
          \/ \E i \in 1..Len(l.down) : IsPage(l.down[i]) /\ l.down[i].request = r
      BY <1>2, <2>1, InFlightIs
    <3>3. \A i \in 1..0 : FALSE
      OBVIOUS
    <3> QED
      BY <3>1, <3>2, <3>3
  <2> QED
    BY <2>1
<1>7. \A i \in 1..Len(l.down) : FALSE
  BY <1>2
<1>8. \A i \in 1..Len(l.asked) : FALSE
  BY <1>2
<1>9. LineOK(t, l)
  BY <1>2, <1>7, <1>8 DEF LineOK, ToldInOrder
<1>10. MemberOK(t, l, d)
  BY <1>1, <1>2, <1>3, <1>5, <1>6 DEF MemberOK
<1>11. PagesOK(t, l, d)
  BY <1>7 DEF PagesOK
<1>12. CatchUpOK(l, d)
  BY <1>3, <1>5, <1>6 DEF CatchUpOK, NoAfter
<1>13. CompleteOK(t, l, d)
  BY <1>3, <1>5 DEF CompleteOK
<1>14. \A e, n : KnownOK(t, link, e, n) => KnownOK(t, l, e, n)
  BY <1>7 DEF KnownOK
<1>15. c.synced => SyncedOK(t, l, d)
  BY <1>1, <1>3, <1>5, <1>6, <1>14 DEF SyncedOK, RangeOK, AfterUpTo
<1>16. ASSUME ~c.synced PROVE FreshOK(t, l, d)
  <2>1. \A x \in d.rows \cup d.overlay : EarlyOK(t, l, x)
    BY <1>1, <1>5, <1>14, <1>16 DEF FreshOK, EarlyOK
  <2> QED
    BY <1>1, <1>3, <1>5, <1>6, <1>16, <2>1 DEF FreshOK
<1>17. TimelineAt(t, l, d)
  BY <1>1, <1>2, <1>5, <1>9, <1>10, <1>11, <1>12, <1>13, <1>15, <1>16 DEF TimelineAt
<1> QED
  BY <1>1, <1>3, <1>5, <1>17 DEF Awaited
-----------------------------------------------------------------------------
(* The app receives what is not a page *)
Behind(l) == [l EXCEPT !.down = Tail(@)]

\* The line without its head
LEMMA BehindIs ==
    ASSUME NEW t, NEW l, NEW c, TimelineAt(t, l, c), l.down # <<>>, NEW d, PagesOK(t, l, d)
    PROVE  /\ l.up /\ Behind(l) \in TimeLinks /\ Behind(l).up
           /\ Behind(l).subscribed = l.subscribed /\ Behind(l).asked = l.asked
           /\ Behind(l).down = Tail(l.down) /\ Head(l.down) = l.down[1] /\ l.down[1] \in TimeMail
           /\ l.down \in Seq(TimeMail) /\ 1 \in 1..Len(l.down)
           /\ MailOK(l.down[1]) /\ LineOK(t, Behind(l))
           /\ InFlight(Behind(l)) \subseteq InFlight(l)
           /\ \A b : NoneBehind(l, b) => NoneBehind(Behind(l), b)
           /\ \A e, n : KnownOK(t, l, e, n) => KnownOK(t, Behind(l), e, n)
           /\ IsTold(l.down[1]) => KnownOK(t, Behind(l), l.down[1].epoch, PointOf(l.down[1]))
           /\ PagesOK(t, Behind(l), d)
<1>1. t \in Times /\ l \in TimeLinks /\ LineOK(t, l) /\ l.down \in Seq(TimeMail)
  BY DEF TimelineAt, TimeLinks
<1> DEFINE m == Behind(l)
<1>2. m = [l EXCEPT !.down = Tail(@)]
  BY DEF Behind
<1> HIDE DEF m
<1>3. /\ l.up /\ m \in TimeLinks /\ m.up /\ m.subscribed = l.subscribed /\ m.asked = l.asked
      /\ m.down = Tail(l.down) /\ Head(l.down) = l.down[1] /\ l.down[1] \in TimeMail
      /\ 1 \in 1..Len(l.down)
      /\ MailOK(l.down[1]) /\ LineOK(t, m)
      /\ InFlight(m) \subseteq InFlight(l)
      /\ \A b : NoneBehind(l, b) => NoneBehind(m, b)
      /\ \A e, n : KnownOK(t, l, e, n) => KnownOK(t, m, e, n)
      /\ IsTold(l.down[1]) => KnownOK(t, m, l.down[1].epoch, PointOf(l.down[1]))
      /\ PagesOK(t, m, d)
  BY <1>1, <1>2, HeadGone
<1> QED
  BY <1>1, <1>3 DEF m

\* A message that changes nothing of the chat
LEMMA Passes ==
    ASSUME NEW t, NEW l, NEW c, TimelineAt(t, l, c), l.down # <<>>,
           c.member # "acknowledged" /\ l.subscribed => ToAcknowledge(Tail(l.down)),
           CompleteOK(t, Behind(l), c)
    PROVE  TimelineAt(t, Behind(l), c)
<1>1. t \in Times /\ l \in TimeLinks /\ LineOK(t, l) /\ PagesOK(t, l, c) /\ MemberOK(t, l, c)
  BY DEF TimelineAt
<1> DEFINE m == Behind(l)
<1>2. /\ l.up /\ m \in TimeLinks /\ m.up /\ m.subscribed = l.subscribed
      /\ m.down = Tail(l.down) /\ LineOK(t, m) /\ InFlight(m) \subseteq InFlight(l)
      /\ \A b : NoneBehind(l, b) => NoneBehind(m, b)
      /\ \A e, n : KnownOK(t, l, e, n) => KnownOK(t, m, e, n)
      /\ PagesOK(t, m, c)
  BY <1>1, BehindIs
<1> HIDE DEF m
<1>3. c.member = "acknowledged" => m.subscribed
  BY <1>1, <1>2 DEF MemberOK
<1>4. c.member # "acknowledged" /\ m.subscribed => ToAcknowledge(m.down)
  BY <1>2
<1>5. m.up = l.up
  BY <1>2
<1>6. CompleteOK(t, m, c)
  BY DEF m
<1>7. TimelineAt(t, m, c)
  BY <1>1, <1>2, <1>3, <1>4, <1>5, <1>6, Carried
<1> QED
  BY <1>7 DEF m

\* The acknowledgement lets the chat catch up
LEMMA AcknowledgedStep ==
    ASSUME NEW t, NEW l, NEW c, TimelineAt(t, l, c), l.down # <<>>, l.down[1].kind = "acknowledged",
           NEW a, a = [c EXCEPT !.member = "acknowledged"]
    PROVE  TimelineAt(t, Behind(l), StartsAcknowledged(a))
<1> DEFINE m == Behind(l)
<1>1. /\ t \in Times /\ l \in TimeLinks /\ c \in Chats /\ l.down \in Seq(TimeMail)
      /\ LineOK(t, l) /\ MemberOK(t, l, c) /\ PagesOK(t, l, c) /\ CatchUpOK(l, c)
      /\ CompleteOK(t, l, c) /\ (c.synced => SyncedOK(t, l, c)) /\ (~c.synced => FreshOK(t, l, c))
  BY DEF TimelineAt, TimeLinks
<1>2. /\ a \in Chats /\ a.scroll = c.scroll /\ a.member = "acknowledged" /\ a.synced = c.synced
      /\ a.rows = c.rows
      /\ a.overlay = c.overlay /\ a.range = c.range /\ a.older = c.older /\ a.newer = c.newer
      /\ a.replacing = c.replacing /\ a.catchUp = c.catchUp /\ a.owed = c.owed /\ a.error = c.error
      /\ a.forced = c.forced /\ a.init = c.init
  BY <1>1 DEF Chats
<1>3. 1 \in 1..Len(l.down) /\ l.subscribed
  <2>1. 1 \in 1..Len(l.down)
    BY <1>1, BehindIs
  <2> QED
    BY <1>1, <2>1 DEF LineOK
<1>4. CASE c.member = "acknowledged"
  <2>1. CompleteOK(t, m, c)
    <3>1. c.range.to \in Nat
      BY <1>1 DEF Chats, Ranges
    <3>2. ~Counts(l.down[1]) /\ m.down = Tail(l.down)
      BY <1>1, BehindIs DEF Counts
    <3>3. Rest(t, l.down, 0, c.range.epoch, c.range.to) => Rest(t, m.down, 0, c.range.epoch, c.range.to)
      BY <1>1, <3>1, <3>2, TailRest
    <3> QED
      BY <1>1, <3>3 DEF CompleteOK
  <2>2. TimelineAt(t, m, c)
    BY <1>4, <2>1, Passes
  <2>3. KeepsStore(c, a)
    BY <1>2, <1>4 DEF KeepsStore
  <2>4. c.catchUp.status = "error" => a.error
    BY <1>1, <1>2 DEF MemberOK
  <2> HIDE DEF m
  <2>5. TimelineAt(t, m, a)
    BY <1>2, <2>2, <2>3, <2>4, Alike
  <2>6. a.catchUp # NoCatchUp /\ a.owed = NoRequest
    BY <1>1, <1>2, <1>4 DEF MemberOK, NoCatchUp
  <2>7. StartsAcknowledged(a) = a
    BY <2>6 DEF StartsAcknowledged
  <2> QED
    BY <2>5, <2>7 DEF m
<1>5. CASE c.member # "acknowledged"
  <2>1. c.catchUp = NoCatchUp /\ c.catchUp.status = "none" /\ NoAfter(l) /\ c.owed = NoRequest
    <3>1. c.catchUp = NoCatchUp /\ c.owed = NoRequest /\ \A r \in InFlight(l) : IsBefore(r)
      BY <1>1, <1>5 DEF MemberOK
    <3> QED
      BY <3>1 DEF NoCatchUp, NoAfter, IsAfter, IsBefore
  <2>2. PagesOK(t, l, a)
    <3>1. ASSUME NEW j \in 1..Len(l.down), IsPage(l.down[j])
          PROVE  Rest(t, l.down, j, l.down[j].epoch, l.down[j].last)
      <4>1. 1 \in 1..j
        OBVIOUS
      <4> QED
        BY <1>1, <3>1, <4>1 DEF PagesOK
    <3> QED
      BY <3>1 DEF PagesOK
  <2>3. /\ m \in TimeLinks /\ m.up /\ m.subscribed = l.subscribed
        /\ m.down = Tail(l.down) /\ LineOK(t, m) /\ InFlight(m) \subseteq InFlight(l)
        /\ \A e, n : KnownOK(t, l, e, n) => KnownOK(t, m, e, n)
        /\ PagesOK(t, m, a)
    BY <2>2, BehindIs
  <2> HIDE DEF m
  <2>4. Subscribed(t, m, a)
    BY <1>1, <1>2, <1>3, <2>3 DEF Subscribed, MemberOK
  <2>5. NoAfter(m)
    BY <2>1, <2>3 DEF NoAfter
  <2>6. StartsAcknowledged(a) = StartsCatchUp(a, NoRequest, FALSE)
    BY <1>2, <2>1 DEF StartsAcknowledged, Acknowledged
  <2> DEFINE b == BeginsCatchUp(a, Sought(a, NoRequest), FallsBack(a, NoRequest))
  <2>7. StartsAcknowledged(a) = b
    BY <1>2, <2>1, <2>6, StartsIs, ZenonT(40)
  <2>8. CASE c.synced
    <3>1. SyncedOK(t, l, c)
      BY <1>1, <2>8
    <3>2. Stored(t, m, a)
      BY <1>2, <2>3, <2>5, <3>1 DEF SyncedOK, Stored, RangeOK, AfterUpTo, NoAfter
    <3> DEFINE next == RowsAfter(a.range.epoch, a.range.to)
    <3>3. /\ next \in Fetched /\ RequestOK(next) /\ IsAfter(next)
          /\ UpTo(next.epoch, next.seq, a.range.epoch, a.range.to)
      <4>1. a.range.epoch \in Nat /\ a.range.to \in Nat /\ a.range.from \in Nat
        BY <1>2 DEF Chats, Ranges
      <4>2. a.range.epoch # 0 /\ a.range.from # 0 /\ a.range.from <= a.range.to
        BY <3>2 DEF Stored, RangeOK
      <4>3. a.range.to # 0
        BY <4>1, <4>2
      <4> QED
        BY <4>1, <4>2, <4>3 DEF RowsAfter, Fetched, RequestOK, IsAfter, UpTo
    <3>4. Sought(a, NoRequest) = next
      <4>1. a.range # NoRange
        BY <3>2 DEF Stored, RangeOK, NoRange
      <4> QED
        BY <4>1 DEF Sought, ResumeRequest
    <3> HIDE DEF next
    <3>5. next \notin InFlight(m)
      BY <2>5, <3>3 DEF NoAfter
    <3>6. LastAfter(m, next)
      BY <2>3, <2>5, <3>5, InFlightIs DEF LastAfter, NoneBehind, NoAfter, AfterUpTo
    <3>7. /\ Sought(a, NoRequest) \in Fetched /\ RequestOK(Sought(a, NoRequest))
          /\ IsAfter(Sought(a, NoRequest)) /\ LastAfter(m, Sought(a, NoRequest))
          /\ UpTo(Sought(a, NoRequest).epoch, Sought(a, NoRequest).seq, a.range.epoch, a.range.to)
          /\ FallsBack(a, NoRequest) \in BOOLEAN
      BY <3>3, <3>4, <3>6 DEF FallsBack
    <3>8. TimelineAt(t, m, b)
      BY <1>2, <2>4, <2>8, <3>2, <3>7, BeginsSynced
    <3> QED
      BY <2>7, <3>8 DEF m
  <2>9. CASE ~c.synced
    <3>1. FreshOK(t, l, c)
      BY <1>1, <2>9
    <3>2. InFlight(m) = {}
      BY <1>5, <2>3, <3>1 DEF FreshOK
    <3>3. ~c.forced
      BY <2>1, <3>1 DEF FreshOK
    <3>4. \A r \in a.rows \cup a.overlay : EarlyOK(t, m, r)
      BY <1>2, <2>3, <3>1 DEF FreshOK, EarlyOK
    <3>5. \/ a.range = NoRange /\ a.rows = {}
          \/ a.range = Span(1, 1, 1) /\ <<1, 1>> \in a.rows /\ \A r \in a.rows : r[1] = 1
      BY <1>2, <3>1 DEF FreshOK
    <3>6. ~a.synced /\ ~a.older /\ a.scroll = NoRequest /\ ~a.forced
      BY <1>2, <2>9, <3>1, <3>3 DEF FreshOK
    <3>7. Sought(a, NoRequest) = ResumeRequest(a)
      BY DEF Sought
    <3> DEFINE f == ResumeRequest(a).dir = "after"
    <3>8. b = BeginsCatchUp(a, ResumeRequest(a), f)
      <4>1. FallsBack(a, NoRequest) = f
        BY <3>7 DEF FallsBack
      <4> QED
        BY <3>7, <4>1
    <3>9. TimelineAt(t, m, BeginsCatchUp(a, ResumeRequest(a), f))
      BY <2>4, <2>5, <3>2, <3>4, <3>5, <3>6, BeginsFresh
    <3> QED
      BY <2>7, <3>8, <3>9 DEF m
  <2> QED
    BY <2>8, <2>9
<1> QED
  BY <1>4, <1>5
\* Rows and replacements come to a chat whose subscription was acknowledged
LEMMA ComesAcknowledged ==
    ASSUME NEW t, NEW l, NEW c, TimelineAt(t, l, c), l.down # <<>>, Counts(l.down[1])
    PROVE  c.member = "acknowledged" /\ l.subscribed
<1>1. /\ l \in TimeLinks /\ LineOK(t, l) /\ MemberOK(t, l, c) /\ PagesOK(t, l, c)
  BY DEF TimelineAt
<1>2. 1 \in 1..Len(l.down)
  BY <1>1, BehindIs
<1>3. l.subscribed
  BY <1>1, <1>2 DEF LineOK, Counts
<1>4. ~ToAcknowledge(l.down)
  <2> SUFFICES ASSUME NEW i \in 1..Len(l.down),
                      \A j \in 1..i : l.down[j].kind \in {"page", "acknowledged"}
               PROVE  FALSE
    BY DEF ToAcknowledge
  <2>1. 1 \in 1..i
    OBVIOUS
  <2> QED
    BY <2>1 DEF Counts
<1> QED
  BY <1>1, <1>3, <1>4 DEF MemberOK

\* A refusal leaves the chat to be retried
LEMMA RefusedStep ==
    ASSUME NEW t, NEW l, NEW c, TimelineAt(t, l, c), l.down # <<>>, l.down[1].kind = "refused",
           NEW a, a = [c EXCEPT !.member = "failed"]
    PROVE  TimelineAt(t, Behind(l), Failed(CatchUpCancelled(a)))
<1> DEFINE m == Behind(l)
           b == CatchUpCancelled(a)
           d == Failed(b)
<1>1. /\ t \in Times /\ l \in TimeLinks /\ c \in Chats /\ l.down \in Seq(TimeMail)
      /\ LineOK(t, l) /\ MemberOK(t, l, c) /\ PagesOK(t, l, c) /\ CatchUpOK(l, c)
      /\ CompleteOK(t, l, c) /\ (c.synced => SyncedOK(t, l, c)) /\ (~c.synced => FreshOK(t, l, c))
  BY DEF TimelineAt, TimeLinks
<1>2. NoCatchUp \in CatchUps /\ NoRequest \in Fetched /\ NoCatchUp.status = "none"
  BY DEF NoCatchUp, CatchUps, Fetched, NoRequest
<1>3. /\ a \in Chats /\ a.scroll = c.scroll /\ a.member = "failed" /\ a.synced = c.synced
      /\ a.rows = c.rows
      /\ a.overlay = c.overlay /\ a.range = c.range /\ a.older = c.older /\ a.newer = c.newer
      /\ a.replacing = c.replacing /\ a.forced = c.forced
  BY <1>1 DEF Chats
<1>4. /\ b \in Chats /\ b.scroll = c.scroll /\ b.member = "failed" /\ b.synced = c.synced
      /\ b.rows = c.rows
      /\ b.overlay = c.overlay /\ b.range = c.range /\ b.older = c.older /\ b.newer = c.newer
      /\ b.replacing = c.replacing /\ b.catchUp = NoCatchUp /\ b.owed = NoRequest /\ b.forced = c.forced
  BY <1>2, <1>3 DEF Chats, CatchUpCancelled
<1> HIDE DEF b
<1>5. /\ d \in Chats /\ d.scroll = c.scroll /\ d.member = "failed" /\ d.synced = c.synced
      /\ d.rows = c.rows
      /\ d.overlay = c.overlay /\ d.range = c.range /\ d.older = c.older /\ d.newer = c.newer
      /\ d.replacing = c.replacing /\ d.catchUp = NoCatchUp /\ d.owed = NoRequest /\ d.forced = c.forced
  BY <1>4 DEF Chats, Failed
<1> HIDE DEF d
<1>6. 1 \in 1..Len(l.down) /\ ~l.subscribed /\ l.up
  <2>1. 1 \in 1..Len(l.down) /\ l.up
    BY <1>1, BehindIs
  <2> QED
    BY <1>1, <2>1 DEF LineOK
<1>7. c.member # "acknowledged" /\ c.catchUp = NoCatchUp /\ ~c.replacing
      /\ \A r \in InFlight(l) : IsBefore(r)
  BY <1>1, <1>6 DEF MemberOK
<1>8. CompleteOK(t, m, c)
  BY <1>2, <1>7 DEF CompleteOK
<1>9. TimelineAt(t, m, c)
  BY <1>6, <1>8, Passes
<1>10. /\ m \in TimeLinks /\ m.up /\ m.subscribed = l.subscribed
       /\ LineOK(t, m) /\ MemberOK(t, m, c) /\ PagesOK(t, m, c) /\ CatchUpOK(m, c)
       /\ (c.synced => SyncedOK(t, m, c)) /\ (~c.synced => FreshOK(t, m, c))
  BY <1>1, <1>9, BehindIs DEF TimelineAt
<1> HIDE DEF m
<1>11. MemberOK(t, m, d)
  BY <1>2, <1>5, <1>6, <1>7, <1>10 DEF MemberOK
<1>12. PagesOK(t, m, d)
  BY <1>5, <1>7, <1>10 DEF PagesOK
<1>13. CatchUpOK(m, d) /\ CompleteOK(t, m, d)
  BY <1>2, <1>5, <1>7, <1>10 DEF CatchUpOK, CompleteOK
<1>14. c.synced => SyncedOK(t, m, d)
  BY <1>2, <1>5, <1>7, <1>10 DEF SyncedOK, RangeOK
<1>15. ResumeRequest(d) = ResumeRequest(c)
  BY <1>5 DEF ResumeRequest
<1>16. ASSUME ~c.synced PROVE FreshOK(t, m, d)
  BY <1>2, <1>5, <1>7, <1>10, <1>15, <1>16 DEF FreshOK
<1>17. TimelineAt(t, m, d)
  BY <1>1, <1>5, <1>10, <1>11, <1>12, <1>13, <1>14, <1>16 DEF TimelineAt
<1> QED
  BY <1>17 DEF m, d, b

\* Told of a replacement, the app fetches the tail
LEMMA ReplacedStep ==
    ASSUME NEW t, NEW l, NEW c, TimelineAt(t, l, c), l.down # <<>>, l.down[1].kind = "replaced",
           NEW d, d = [c EXCEPT !.replacing = TRUE]
    PROVE  TimelineAt(t, Behind(l), d)
<1> DEFINE m == Behind(l)
<1>1. /\ t \in Times /\ l \in TimeLinks /\ c \in Chats /\ l.down \in Seq(TimeMail)
      /\ LineOK(t, l) /\ MemberOK(t, l, c) /\ PagesOK(t, l, c) /\ CatchUpOK(l, c)
      /\ CompleteOK(t, l, c) /\ (c.synced => SyncedOK(t, l, c)) /\ (~c.synced => FreshOK(t, l, c))
  BY DEF TimelineAt, TimeLinks
<1>2. /\ d \in Chats /\ d.scroll = c.scroll /\ d.member = c.member /\ d.synced = c.synced
      /\ d.rows = c.rows
      /\ d.overlay = c.overlay /\ d.range = c.range /\ d.older = c.older /\ d.newer = c.newer
      /\ d.replacing = TRUE /\ d.catchUp = c.catchUp /\ d.owed = c.owed /\ d.forced = c.forced
      /\ d.init = c.init /\ d.error = c.error
  BY <1>1 DEF Chats
<1>3. c.member = "acknowledged" /\ l.subscribed
  BY ComesAcknowledged DEF Counts
<1>4. /\ l.up /\ m \in TimeLinks /\ m.up /\ m.subscribed = l.subscribed /\ LineOK(t, m)
      /\ InFlight(m) \subseteq InFlight(l)
      /\ \A b : NoneBehind(l, b) => NoneBehind(m, b)
      /\ \A e, n : KnownOK(t, l, e, n) => KnownOK(t, m, e, n)
      /\ PagesOK(t, m, c)
  BY <1>1, BehindIs
<1> HIDE DEF m
<1>5. MemberOK(t, l, d)
  BY <1>1, <1>2, <1>3 DEF MemberOK
<1>6. PagesOK(t, l, d) /\ PagesOK(t, m, d)
  BY <1>1, <1>2, <1>4 DEF PagesOK
<1>7. CatchUpOK(l, d)
  BY <1>1, <1>2 DEF CatchUpOK, Bound
<1>8. CompleteOK(t, l, d) /\ CompleteOK(t, m, d)
  BY <1>1, <1>2 DEF CompleteOK
<1>9. c.synced => SyncedOK(t, l, d)
  BY <1>1, <1>2 DEF SyncedOK, RangeOK
<1>10. ResumeRequest(d) = ResumeRequest(c)
  BY <1>2 DEF ResumeRequest
<1>11. ASSUME ~c.synced PROVE FreshOK(t, l, d)
  BY <1>1, <1>2, <1>10, <1>11 DEF FreshOK
<1>12. TimelineAt(t, l, d)
  BY <1>1, <1>2, <1>5, <1>6, <1>7, <1>8, <1>9, <1>11 DEF TimelineAt
<1>13. TimelineAt(t, m, d)
  BY <1>1, <1>2, <1>3, <1>4, <1>6, <1>8, <1>12, Carried
<1> QED
  BY <1>13 DEF m
KeepsCatchUp(c, d) ==
    /\ d.member = c.member /\ d.catchUp = c.catchUp /\ d.owed = c.owed /\ d.scroll = c.scroll
    /\ d.replacing = c.replacing /\ d.error = c.error

\* Requests are requests
LEMMA InFlightFetched ==
    ASSUME NEW l \in TimeLinks, NEW r \in InFlight(l)
    PROVE  r \in Fetched /\ r.epoch \in Nat /\ r.seq \in Nat
<1>1. l.asked \in Seq(Fetched) /\ l.down \in Seq(TimeMail)
  BY DEF TimeLinks
<1>2. CASE \E i \in 1..Len(l.asked) : l.asked[i] = r
  <2>1. r \in Fetched
    BY <1>1, <1>2
  <2> QED
    BY <2>1 DEF Fetched
<1>3. CASE \E i \in 1..Len(l.down) : IsPage(l.down[i]) /\ l.down[i].request = r
  <2>1. PICK i \in 1..Len(l.down) : IsPage(l.down[i]) /\ l.down[i].request = r
    BY <1>3
  <2>2. l.down[i] \in TimeMail
    BY <1>1
  <2>3. l.down[i] \in TimePages
    BY <2>1, <2>2, MailIs
  <2>4. r \in Fetched
    BY <2>1, <2>3 DEF TimePages
  <2> QED
    BY <2>4 DEF Fetched
<1> QED
  BY <1>2, <1>3, InFlightIs

\* A synchronized chat shows more, or what came after a rewind
LEMMA Shows ==
    ASSUME NEW t, NEW l, NEW c, TimelineAt(t, l, c), l.down # <<>>, c.synced,
           c.member # "acknowledged" /\ l.subscribed => ToAcknowledge(Tail(l.down)),
           NEW d \in Chats, d.synced, KeepsCatchUp(c, d), RangeOK(d),
           KnownOK(t, Behind(l), d.range.epoch, d.range.to),
           UpTo(c.range.epoch, c.range.to, d.range.epoch, d.range.to),
           CompleteOK(t, Behind(l), d)
    PROVE  TimelineAt(t, Behind(l), d)
<1> DEFINE m == Behind(l)
<1>1. /\ t \in Times /\ l \in TimeLinks /\ c \in Chats
      /\ LineOK(t, l) /\ MemberOK(t, l, c) /\ PagesOK(t, l, c) /\ CatchUpOK(l, c)
      /\ CompleteOK(t, l, c) /\ SyncedOK(t, l, c)
  BY DEF TimelineAt
<1>2. /\ l.up /\ m \in TimeLinks /\ m.up /\ m.subscribed = l.subscribed
      /\ m.down = Tail(l.down) /\ LineOK(t, m) /\ InFlight(m) \subseteq InFlight(l)
      /\ \A b : NoneBehind(l, b) => NoneBehind(m, b)
      /\ PagesOK(t, m, c)
  BY <1>1, BehindIs
<1>3. KnownOK(t, m, d.range.epoch, d.range.to) /\ CompleteOK(t, m, d)
  OBVIOUS
<1>4. c.member # "acknowledged" /\ m.subscribed => ToAcknowledge(m.down)
  BY <1>2
<1> HIDE DEF m
<1>5. /\ d.member = c.member /\ d.catchUp = c.catchUp /\ d.owed = c.owed /\ d.scroll = c.scroll
      /\ d.replacing = c.replacing /\ d.error = c.error
  BY DEF KeepsCatchUp
<1>6. MemberOK(t, m, d)
  BY <1>1, <1>2, <1>4, <1>5 DEF MemberOK
<1>7. PagesOK(t, m, d)
  BY <1>2, <1>5 DEF PagesOK
<1>8. CatchUpOK(m, d)
  BY <1>1, <1>2, <1>5 DEF CatchUpOK, Bound, NoAfter, LastAfter, AfterUpTo
<1>9. ASSUME NEW e \in Nat, NEW n \in Nat, UpTo(e, n, c.range.epoch, c.range.to)
      PROVE  UpTo(e, n, d.range.epoch, d.range.to)
  <2> DEFINE a == c.range.epoch
             b == c.range.to
             x == d.range.epoch
             y == d.range.to
  <2>1. a \in Nat /\ b \in Nat /\ x \in Nat /\ y \in Nat /\ UpTo(a, b, x, y) /\ UpTo(e, n, a, b)
    BY <1>1, <1>9 DEF Chats, Ranges
  <2> HIDE DEF a, b, x, y
  <2>2. UpTo(e, n, x, y)
    BY <1>9, <2>1 DEF UpTo
  <2> QED
    BY <2>2 DEF x, y
<1>10. AfterUpTo(m, d.range.epoch, d.range.to)
  <2> SUFFICES ASSUME NEW r \in InFlight(m), IsAfter(r)
               PROVE  UpTo(r.epoch, r.seq, d.range.epoch, d.range.to)
    BY DEF AfterUpTo
  <2>1. r \in InFlight(l) /\ r.epoch \in Nat /\ r.seq \in Nat
    BY <1>1, <1>2, InFlightFetched
  <2> QED
    BY <1>1, <1>9, <2>1 DEF SyncedOK, AfterUpTo
<1>11. /\ c.catchUp.at.epoch \in Nat /\ c.catchUp.at.seq \in Nat
       /\ c.catchUp.request.epoch \in Nat /\ c.catchUp.request.seq \in Nat
  BY <1>1 DEF Chats, CatchUps, Fetched
<1>12. SyncedOK(t, m, d)
  BY <1>1, <1>3, <1>5, <1>9, <1>10, <1>11 DEF SyncedOK
<1>13. TimelineAt(t, m, d)
  BY <1>1, <1>2, <1>3, <1>6, <1>7, <1>8, <1>12 DEF TimelineAt
<1> QED
  BY <1>13 DEF m
\* A row that comes beyond a complete catch-up follows the range
LEMMA CompleteBehindRow ==
    ASSUME NEW t, NEW l, NEW c, TimelineAt(t, l, c), l.down # <<>>, IsRow(l.down[1]),
           c.catchUp.status = "complete", ~c.replacing
    PROVE  \/ Replaced(Tail(l.down), 0)
           \/ /\ l.down[1].epoch = c.range.epoch /\ l.down[1].seq = c.range.to + 1
              /\ Rest(t, Tail(l.down), 0, c.range.epoch, c.range.to + 1)
<1> DEFINE e == c.range.epoch
           n == c.range.to
           d == l.down
<1>1. /\ t \in Times /\ d \in Seq(TimeMail) /\ CompleteOK(t, l, c) /\ e \in Nat /\ n \in Nat
  BY DEF TimelineAt, TimeLinks, Chats, Ranges
<1>2. Rest(t, d, 0, e, n) /\ IsRow(d[1]) /\ d # <<>>
  BY <1>1 DEF CompleteOK
<1> HIDE DEF e, n, d
<1>3. \/ Replaced(d, 1)
      \/ d[1].epoch = e /\ d[1].seq = n + 1 /\ Rest(t, d, 1, e, n + 1)
  BY <1>1, <1>2, RestAfterRow
<1>4. Replaced(d, 1) => Replaced(Tail(d), 0)
  BY <1>1, <1>2, TailRest
<1>5. n + 1 \in Nat
  BY <1>1
<1>6. Rest(t, d, 1, e, n + 1) => Rest(t, Tail(d), 0, e, n + 1)
  BY <1>1, <1>2, <1>5, TailRest
<1> QED
  BY <1>3, <1>4, <1>6 DEF e, n, d

\* A live row is shown, held back, passed over, or starts a catch-up
LEMMA RowStep ==
    ASSUME NEW t, NEW l, NEW c, TimelineAt(t, l, c), l.down # <<>>, IsRow(l.down[1]),
           NEW e, e = l.down[1].epoch, NEW s, s = l.down[1].seq
    PROVE  TimelineAt(t, Behind(l), TakesRow(c, e, s))
<1> DEFINE m == Behind(l)
           x == l.down[1]
<1>1. /\ t \in Times /\ l \in TimeLinks /\ c \in Chats
      /\ LineOK(t, l) /\ MemberOK(t, l, c) /\ PagesOK(t, l, c) /\ CatchUpOK(l, c)
      /\ CompleteOK(t, l, c) /\ (c.synced => SyncedOK(t, l, c)) /\ (~c.synced => FreshOK(t, l, c))
  BY DEF TimelineAt
<1>2. c.member = "acknowledged" /\ l.subscribed
  BY ComesAcknowledged DEF Counts, IsRow
<1>3. /\ l.up /\ m \in TimeLinks /\ m.up /\ m.subscribed = l.subscribed /\ LineOK(t, m)
      /\ m.down = Tail(l.down) /\ x \in TimeMail /\ MailOK(x) /\ 1 \in 1..Len(l.down)
      /\ InFlight(m) \subseteq InFlight(l)
      /\ \A b : NoneBehind(l, b) => NoneBehind(m, b)
      /\ \A f, n : KnownOK(t, l, f, n) => KnownOK(t, m, f, n)
      /\ IsTold(x) => KnownOK(t, m, x.epoch, PointOf(x))
      /\ PagesOK(t, m, c)
  BY <1>1, BehindIs
<1>4. e \in Nat /\ s \in Nat /\ e # 0 /\ s # 0 /\ KnownOK(t, m, e, s)
      /\ \A f, n : KnownOK(t, l, f, n) => UpTo(f, n, e, s)
  <2>1. x \in TimeRows /\ IsTold(x) /\ PointOf(x) = s
    BY <1>3, MailIs DEF IsTold, PointOf
  <2>2. e \in Nat /\ s \in Nat /\ e # 0 /\ s # 0
    BY <1>3, <2>1 DEF TimeRows, MailOK
  <2> QED
    BY <1>3, <2>1, <2>2 DEF KnownOK
<1>5. c.catchUp.status = "complete" /\ ~c.replacing =>
        \/ Replaced(m.down, 0)
        \/ e = c.range.epoch /\ s = c.range.to + 1 /\ Rest(t, m.down, 0, c.range.epoch, c.range.to + 1)
  BY <1>3, CompleteBehindRow
<1> HIDE DEF m, x
<1>6. ASSUME ~c.synced PROVE TimelineAt(t, m, TakesRow(c, e, s))
  <2> DEFINE d == [c EXCEPT !.overlay = @ \cup {<<e, s>>}]
  <2>1. TakesRow(c, e, s) = d
    BY <1>6 DEF TakesRow
  <2>2. FreshOK(t, l, c)
    BY <1>1, <1>6
  <2>3. c.overlay \cup {<<e, s>>} \in ChatRows
    BY <1>1, <1>4 DEF Chats, ChatRows
  <2>4. /\ d \in Chats /\ d.scroll = c.scroll /\ d.member = c.member /\ d.synced = c.synced
        /\ d.rows = c.rows /\ d.overlay = c.overlay \cup {<<e, s>>}
        /\ d.range = c.range /\ d.older = c.older /\ d.newer = c.newer
        /\ d.replacing = c.replacing /\ d.catchUp = c.catchUp /\ d.owed = c.owed /\ d.forced = c.forced
        /\ d.init = c.init /\ d.error = c.error
    BY <1>1, <2>3 DEF Chats
  <2> HIDE DEF d
  <2>5. MemberOK(t, m, d)
    BY <1>1, <1>2, <1>3, <2>4 DEF MemberOK
  <2>6. PagesOK(t, m, d)
    BY <1>3, <2>4 DEF PagesOK
  <2>7. CatchUpOK(m, d)
    BY <1>1, <1>3, <2>4 DEF CatchUpOK, Bound, NoAfter, LastAfter, AfterUpTo
  <2>8. c.catchUp.status # "complete"
    BY <2>2 DEF FreshOK
  <2>9. CompleteOK(t, m, d)
    BY <2>4, <2>8 DEF CompleteOK
  <2>10. ResumeRequest(d) = ResumeRequest(c)
    BY <2>4 DEF ResumeRequest
  <2>11. \A r \in d.rows \cup d.overlay : EarlyOK(t, m, r)
    <3>1. \A r \in c.rows \cup c.overlay : EarlyOK(t, m, r)
      BY <1>3, <2>2 DEF FreshOK, EarlyOK
    <3>2. EarlyOK(t, m, <<e, s>>)
      BY <1>4 DEF EarlyOK
    <3> QED
      BY <2>4, <3>1, <3>2
  <2>12. FreshOK(t, m, d)
    BY <1>2, <1>3, <2>2, <2>4, <2>10, <2>11 DEF FreshOK
  <2>13. TimelineAt(t, m, d)
    BY <1>1, <1>3, <1>6, <2>4, <2>5, <2>6, <2>7, <2>9, <2>12 DEF TimelineAt
  <2> QED
    BY <2>1, <2>13
<1>7. ASSUME c.synced PROVE TimelineAt(t, m, TakesRow(c, e, s))
  <2>1. SyncedOK(t, l, c) /\ RangeOK(c) /\ KnownOK(t, l, c.range.epoch, c.range.to)
    BY <1>1, <1>7 DEF SyncedOK
  <2>2. c.range # NoRange
    BY <2>1 DEF RangeOK, NoRange
  <2>3. /\ c.range.epoch \in Nat /\ c.range.to \in Nat /\ c.range.from \in Nat /\ c.range.from # 0
        /\ c.range.from <= c.range.to /\ c.range.epoch # 0
    BY <1>1, <2>1 DEF Chats, Ranges, RangeOK
  <2>4. UpTo(c.range.epoch, c.range.to, e, s)
    BY <1>4, <2>1
  <2>5. c.catchUp.status = "complete" => ~c.newer
    BY <1>1 DEF CompleteOK
  <2>6. ASSUME \/ c.catchUp.status # "complete"
               \/ ~(e = c.range.epoch /\ s = c.range.to + 1)
        PROVE  TimelineAt(t, m, c)
    <3>1. c.catchUp.status = "complete" /\ ~c.replacing => Replaced(m.down, 0)
      BY <1>5, <2>6
    <3>2. CompleteOK(t, m, c)
      BY <1>1, <3>1 DEF CompleteOK, Rest
    <3> QED
      BY <1>2, <3>2, Passes DEF m
  <2>7. CASE c.newer
    <3>1. TakesRow(c, e, s) = c
      BY <1>7, <2>7 DEF TakesRow
    <3> QED
      BY <2>5, <2>6, <2>7, <3>1
  <2>8. CASE ~c.newer /\ c.range.epoch # e /\ s # 1
    <3>1. TakesRow(c, e, s) = c
      BY <1>7, <2>2, <2>8 DEF TakesRow
    <3> QED
      BY <2>6, <2>8, <3>1
  <2>9. CASE ~c.newer /\ c.range.epoch # e /\ s = 1
    <3> DEFINE d == [c EXCEPT !.rows = {<<e, 1>>}, !.range = Span(e, 1, 1)]
    <3>1. TakesRow(c, e, s) = d
      BY <1>7, <2>2, <2>9 DEF TakesRow
    <3>2. Span(e, 1, 1) = [epoch |-> e, from |-> 1, to |-> 1]
      BY DEF Span
    <3>3. Span(e, 1, 1) \in Ranges /\ {<<e, 1>>} \in ChatRows
      BY <1>4, <3>2 DEF Ranges, ChatRows
    <3>4. /\ d \in Chats /\ d.synced = c.synced /\ d.rows = {<<e, 1>>} /\ d.range = Span(e, 1, 1)
          /\ d.overlay = c.overlay /\ d.older = c.older /\ d.newer = c.newer /\ KeepsCatchUp(c, d)
      BY <1>1, <3>3 DEF Chats, KeepsCatchUp
    <3>5. d.range.epoch = e /\ d.range.from = 1 /\ d.range.to = 1
      BY <3>2, <3>4
    <3> HIDE DEF d
    <3>6. Rows(d.range) = {<<e, 1>>}
      <4>1. (1..1) \ {0} = {1}
        OBVIOUS
      <4> QED
        BY <3>5, <4>1 DEF Rows
    <3>7. RangeOK(d)
      BY <1>4, <2>1, <3>4, <3>5, <3>6 DEF RangeOK, Wide
    <3>8. KnownOK(t, m, d.range.epoch, d.range.to) /\ UpTo(c.range.epoch, c.range.to, d.range.epoch, d.range.to)
      BY <1>4, <2>4, <2>9, <3>5
    <3>9. CompleteOK(t, m, d)
      <4>1. c.catchUp.status = "complete" /\ ~c.replacing => Replaced(m.down, 0)
        BY <1>5, <2>9
      <4> QED
        BY <1>7, <2>9, <3>4, <4>1 DEF CompleteOK, Rest, KeepsCatchUp
    <3>10. TimelineAt(t, m, d)
      BY <1>2, <1>7, <3>4, <3>7, <3>8, <3>9, Shows DEF m
    <3> QED
      BY <3>1, <3>10
  <2>10. CASE ~c.newer /\ c.range.epoch = e /\ s <= c.range.to
    <3>1. TakesRow(c, e, s) = c
      BY <1>7, <2>2, <2>10 DEF TakesRow
    <3> QED
      BY <1>4, <2>3, <2>6, <2>10, <3>1
  <2>11. CASE ~c.newer /\ c.range.epoch = e /\ s = c.range.to + 1
    <3> DEFINE d == [c EXCEPT !.rows = @ \cup {<<e, s>>}, !.range.to = s]
    <3>1. TakesRow(c, e, s) = d
      <4>1. ~(s <= c.range.to)
        BY <2>3, <2>11
      <4> QED
        BY <1>7, <2>2, <2>11, <4>1 DEF TakesRow
    <3>2. c.rows \cup {<<e, s>>} \in ChatRows
      BY <1>1, <1>4 DEF Chats, ChatRows
    <3>3. /\ [c.range EXCEPT !.to = s] \in Ranges
          /\ [c.range EXCEPT !.to = s].epoch = e /\ [c.range EXCEPT !.to = s].to = s
          /\ [c.range EXCEPT !.to = s].from = c.range.from
      BY <1>1, <1>4, <2>11 DEF Chats, Ranges
    <3>4. /\ d \in Chats /\ d.synced = c.synced /\ d.rows = c.rows \cup {<<e, s>>}
          /\ d.range = [c.range EXCEPT !.to = s]
          /\ d.overlay = c.overlay /\ d.older = c.older /\ d.newer = c.newer /\ KeepsCatchUp(c, d)
      BY <1>1, <3>2, <3>3 DEF Chats, KeepsCatchUp
    <3>5. d.range.epoch = e /\ d.range.from = c.range.from /\ d.range.to = s
      BY <3>3, <3>4
    <3> HIDE DEF d
    <3>6. d.rows = Rows(d.range)
      <4> DEFINE a == c.range.from
                 b == c.range.to
      <4>1. a \in Nat /\ b \in Nat /\ a # 0 /\ a <= b /\ s = b + 1
        BY <2>3, <2>11
      <4>2. Rows(c.range) = {<<e, i>> : i \in (a..b) \ {0}} /\ Rows(d.range) = {<<e, i>> : i \in (a..s) \ {0}}
        BY <2>11, <3>5 DEF Rows
      <4> HIDE DEF a, b
      <4>3. (a..s) \ {0} = ((a..b) \ {0}) \cup {s}
        BY <4>1
      <4> QED
        BY <2>1, <3>4, <4>2, <4>3 DEF RangeOK
    <3>7. RangeOK(d)
      <4>1. Wide(d.range)
        BY <2>1, <2>3, <2>11, <3>5, PageSizeIs DEF RangeOK, Wide
      <4> QED
        BY <1>4, <2>1, <2>3, <2>11, <3>4, <3>5, <3>6, <4>1 DEF RangeOK
    <3>8. KnownOK(t, m, d.range.epoch, d.range.to) /\ UpTo(c.range.epoch, c.range.to, d.range.epoch, d.range.to)
      BY <1>4, <2>4, <3>5
    <3>9. CompleteOK(t, m, d)
      BY <1>5, <1>7, <2>11, <3>4, <3>5 DEF CompleteOK, Rest, KeepsCatchUp
    <3>10. TimelineAt(t, m, d)
      BY <1>2, <1>7, <3>4, <3>7, <3>8, <3>9, Shows DEF m
    <3> QED
      BY <3>1, <3>10
  <2>12. CASE ~c.newer /\ c.range.epoch = e /\ s > c.range.to + 1
    <3>1. TakesRow(c, e, s) = RecoversGap(c, c.range.epoch, c.range.to)
      <4>1. ~(s <= c.range.to) /\ s # c.range.to + 1
        BY <1>4, <2>3, <2>12
      <4> QED
        BY <1>7, <2>2, <2>12, <4>1 DEF TakesRow
    <3>2. s # c.range.to + 1
      BY <1>4, <2>3, <2>12
    <3>3. TimelineAt(t, m, c)
      BY <2>6, <3>2
    <3> QED
      BY <1>2, <1>7, <3>1, <3>3, RecoversBehindRange
  <2>13. s <= c.range.to \/ s = c.range.to + 1 \/ s > c.range.to + 1
    BY <1>4, <2>3
  <2> QED
    BY <2>7, <2>8, <2>9, <2>10, <2>11, <2>12, <2>13
<1> QED
  BY <1>6, <1>7 DEF m
-----------------------------------------------------------------------------
(* The app receives a page: what is shown *)

\* A chat with other rows of which nothing else changed
OtherRows(c, d) ==
    /\ KeepsCatchUp(c, d) /\ d.synced = c.synced /\ d.newer = c.newer /\ d.init = c.init
    /\ d.forced = c.forced /\ d.pending = c.pending /\ d.retrying = c.retrying

\* A page without its request
Filled(p) ==
    /\ p \in TimePages /\ p.epoch # 0 /\ p.from # 0 /\ p.from <= p.to /\ (p.older <=> p.from > 1)
    /\ p.to + 1 <= p.from + PageSize

\* A page in place of the rows shown
LEMMA PageAloneIs ==
    ASSUME NEW c \in Chats, NEW p, Filled(p), Wide(p)
    PROVE  /\ PageAlone(c, p) \in Chats /\ OtherRows(c, PageAlone(c, p))
           /\ PageAlone(c, p).rows = Rows(p) /\ Rows(p) = Rows(PageAlone(c, p).range)
           /\ PageAlone(c, p).overlay = {r \in c.overlay : r[1] = p.epoch /\ r[2] > p.to}
           /\ PageAlone(c, p).range = [epoch |-> p.epoch, from |-> p.from, to |-> p.to]
           /\ PageAlone(c, p).older = p.older
           /\ c.overlay = {} => RangeOK(PageAlone(c, p))
<1> DEFINE range == [epoch |-> p.epoch, from |-> p.from, to |-> p.to]
           over  == {r \in c.overlay : r[1] = p.epoch /\ r[2] > p.to}
           d     == PageAlone(c, p)
<1>1. /\ p.epoch \in Nat /\ p.from \in Nat /\ p.to \in Nat /\ p.older \in BOOLEAN
      /\ p.epoch # 0 /\ p.from # 0 /\ p.from <= p.to /\ (p.older <=> p.from > 1)
  BY DEF Filled, TimePages
<1>2. p.to # 0
  BY <1>1
<1>3. Span(p.epoch, p.from, p.to) = range
  BY <1>2 DEF Span
<1>4. range \in Ranges /\ range.epoch = p.epoch /\ range.from = p.from /\ range.to = p.to
  BY <1>1 DEF Ranges
<1>5. Rows(p) = Rows(range)
  BY <1>4 DEF Rows
<1>6. Rows(p) \in ChatRows
  <2>1. ASSUME NEW r \in Rows(p) PROVE r \in Nat \X Nat
    <3>1. PICK i \in (p.from..p.to) \ {0} : r = <<p.epoch, i>>
      BY <2>1 DEF Rows
    <3>2. i \in Nat
      BY <1>1
    <3> QED
      BY <1>1, <3>1, <3>2
  <2> QED
    BY <2>1 DEF ChatRows
<1>7. over \in ChatRows
  BY DEF Chats, ChatRows
<1> HIDE DEF range, over
<1>8. /\ d \in Chats /\ OtherRows(c, d) /\ d.rows = Rows(p) /\ d.overlay = over
      /\ d.range = range /\ d.older = p.older
  <2>1. d = [c EXCEPT !.rows = Rows(p), !.overlay = over, !.range = range, !.older = p.older]
    BY <1>3 DEF PageAlone, over
  <2> QED
    BY <1>1, <1>4, <1>6, <1>7, <2>1, ZenonT(40) DEF Chats, OtherRows, KeepsCatchUp
<1> HIDE DEF d
<1>9. ASSUME c.overlay = {} PROVE RangeOK(d)
  <2>1. d.overlay = {}
    BY <1>8, <1>9 DEF over
  <2>2. Wide(d.range)
    BY <1>4, <1>8 DEF Wide
  <2>3. d.range.from = 1 \/ d.older
    BY <1>1, <1>4, <1>8
  <2> QED
    BY <1>1, <1>4, <1>5, <1>8, <2>1, <2>2, <2>3 DEF RangeOK
<1> QED
  BY <1>5, <1>8, <1>9 DEF d, range, over

\* Rows that follow those of the range
Longer(c, p) == [c EXCEPT !.rows = @ \cup Rows(p), !.range.to = p.to]

\* A page that continues the rows shown
LEMMA LongerIs ==
    ASSUME NEW c \in Chats, RangeOK(c), NEW p, Filled(p), p.epoch = c.range.epoch,
           p.to > c.range.to, p.from <= c.range.to + 1
    PROVE  /\ Longer(c, p) \in Chats /\ OtherRows(c, Longer(c, p)) /\ RangeOK(Longer(c, p))
           /\ Longer(c, p).range.epoch = p.epoch /\ Longer(c, p).range.to = p.to
<1> DEFINE d == Longer(c, p)
           e == p.epoch
           a == c.range.from
           b == c.range.to
           x == p.from
           y == p.to
<1>1. /\ e \in Nat /\ x \in Nat /\ y \in Nat /\ e # 0 /\ x # 0 /\ x <= y
      /\ y + 1 <= x + PageSize
  BY DEF Filled, TimePages
<1>2. /\ a \in Nat /\ b \in Nat /\ a # 0 /\ a <= b /\ c.range.epoch = e /\ c.overlay = {}
      /\ c.rows = Rows(c.range) /\ (a = 1 \/ b + 1 >= a + PageSize) /\ (a = 1 \/ c.older)
  BY DEF RangeOK, Chats, Ranges, Wide
<1>3. y > b /\ x <= b + 1 /\ PageSize \in Nat
  BY PageSizeIs
<1>4. Rows(c.range) = {<<e, i>> : i \in (a..b) \ {0}} /\ Rows(p) = {<<e, i>> : i \in (x..y) \ {0}}
  BY <1>2 DEF Rows
<1>5. Rows(p) \in ChatRows
  <2>1. ASSUME NEW r \in Rows(p) PROVE r \in Nat \X Nat
    <3>1. PICK i \in (x..y) \ {0} : r = <<e, i>>
      BY <1>4, <2>1
    <3> HIDE DEF e, x, y
    <3>2. i \in Nat
      BY <1>1
    <3> QED
      BY <1>1, <3>1, <3>2
  <2> QED
    BY <2>1 DEF ChatRows
<1>6. c.rows \cup Rows(p) \in ChatRows
  BY <1>5 DEF Chats, ChatRows
<1>7. /\ [c.range EXCEPT !.to = y] \in Ranges /\ [c.range EXCEPT !.to = y].epoch = e
      /\ [c.range EXCEPT !.to = y].from = a /\ [c.range EXCEPT !.to = y].to = y
  BY <1>1, <1>2 DEF Chats, Ranges
<1>8. /\ d \in Chats /\ OtherRows(c, d) /\ d.rows = c.rows \cup Rows(p) /\ d.overlay = c.overlay
      /\ d.range = [c.range EXCEPT !.to = y] /\ d.older = c.older
  BY <1>6, <1>7 DEF Longer, Chats, OtherRows, KeepsCatchUp
<1>9. Rows(d.range) = {<<e, i>> : i \in (a..y) \ {0}}
  BY <1>7, <1>8 DEF Rows
<1>10. d.range.epoch = e /\ d.range.from = a /\ d.range.to = y
  BY <1>7, <1>8
<1> HIDE DEF d, e, a, b, x, y
<1>11. x >= a
  BY <1>1, <1>2, <1>3
<1>12. (a..y) \ {0} = ((a..b) \ {0}) \cup ((x..y) \ {0})
  BY <1>1, <1>2, <1>3, <1>11
<1>13. d.rows = Rows(d.range)
  BY <1>2, <1>4, <1>8, <1>9, <1>12
<1>14. a = 1 \/ y + 1 >= a + PageSize
  BY <1>1, <1>2, <1>3
<1>15. RangeOK(d)
  <2>1. a <= y
    BY <1>1, <1>2, <1>3
  <2> QED
    BY <1>1, <1>2, <1>8, <1>10, <1>13, <1>14, <2>1 DEF RangeOK, Wide
<1> QED
  BY <1>8, <1>10, <1>15 DEF d, e, y

\* Rows that precede those of the range
Earlier(c, p) == [c EXCEPT !.rows = @ \cup Rows(p), !.range.from = p.from, !.older = p.older]

\* A page of the rows before those shown
LEMMA EarlierIs ==
    ASSUME NEW c \in Chats, RangeOK(c), NEW p \in TimePages, p.from # 0, p.from <= p.to,
           p.older <=> p.from > 1, p.epoch = c.range.epoch, p.to + 1 = c.range.from
    PROVE  /\ Earlier(c, p) \in Chats /\ OtherRows(c, Earlier(c, p)) /\ RangeOK(Earlier(c, p))
           /\ Earlier(c, p).range.epoch = c.range.epoch /\ Earlier(c, p).range.to = c.range.to
<1> DEFINE d == Earlier(c, p)
           e == p.epoch
           a == c.range.from
           b == c.range.to
           x == p.from
           y == p.to
<1>1. /\ e \in Nat /\ x \in Nat /\ y \in Nat /\ x # 0 /\ x <= y
      /\ p.older \in BOOLEAN /\ (p.older <=> x > 1)
  BY DEF TimePages
<1>2. /\ a \in Nat /\ b \in Nat /\ a # 0 /\ a <= b /\ c.range.epoch = e /\ c.overlay = {} /\ e # 0
      /\ c.rows = Rows(c.range) /\ (a = 1 \/ b + 1 >= a + PageSize)
  BY DEF RangeOK, Chats, Ranges, Wide
<1>3. y + 1 = a /\ PageSize \in Nat
  BY PageSizeIs
<1>4. Rows(c.range) = {<<e, i>> : i \in (a..b) \ {0}} /\ Rows(p) = {<<e, i>> : i \in (x..y) \ {0}}
  BY <1>2 DEF Rows
<1>5. Rows(p) \in ChatRows
  <2>1. ASSUME NEW r \in Rows(p) PROVE r \in Nat \X Nat
    <3>1. PICK i \in (x..y) \ {0} : r = <<e, i>>
      BY <1>4, <2>1
    <3> HIDE DEF e, x, y
    <3>2. i \in Nat
      BY <1>1
    <3> QED
      BY <1>1, <3>1, <3>2
  <2> QED
    BY <2>1 DEF ChatRows
<1>6. c.rows \cup Rows(p) \in ChatRows
  BY <1>5 DEF Chats, ChatRows
<1>7. /\ [c.range EXCEPT !.from = x] \in Ranges /\ [c.range EXCEPT !.from = x].epoch = e
      /\ [c.range EXCEPT !.from = x].from = x /\ [c.range EXCEPT !.from = x].to = b
  BY <1>1, <1>2 DEF Chats, Ranges
<1>8. /\ d \in Chats /\ OtherRows(c, d) /\ d.rows = c.rows \cup Rows(p) /\ d.overlay = c.overlay
      /\ d.range = [c.range EXCEPT !.from = x] /\ d.older = p.older
  BY <1>1, <1>6, <1>7 DEF Earlier, Chats, OtherRows, KeepsCatchUp
<1>9. Rows(d.range) = {<<e, i>> : i \in (x..b) \ {0}}
  BY <1>7, <1>8 DEF Rows
<1>10. d.range.epoch = e /\ d.range.from = x /\ d.range.to = b
  BY <1>7, <1>8
<1> HIDE DEF d, e, a, b, x, y
<1>12. (x..b) \ {0} = ((a..b) \ {0}) \cup ((x..y) \ {0})
  BY <1>1, <1>2, <1>3
<1>13. d.rows = Rows(d.range)
  BY <1>2, <1>4, <1>8, <1>9, <1>12
<1>14. b + 1 >= x + PageSize /\ (x = 1 \/ d.older)
  BY <1>1, <1>2, <1>3, <1>8
<1>15. RangeOK(d)
  <2>1. x <= b
    BY <1>1, <1>2, <1>3
  <2> QED
    BY <1>1, <1>2, <1>8, <1>10, <1>13, <1>14, <2>1 DEF RangeOK, Wide
<1> QED
  BY <1>2, <1>8, <1>10, <1>15 DEF d, e, b
\* The rows after a page that is taken
Result(c, p) == IF Replaces(c, p) THEN PageAlone(c, p) ELSE Extended(c, p)

\* From range b to range e, and what a page told of is told
Grows(b, e, p) ==
    /\ UpTo(b.epoch, b.to, e.epoch, e.to) /\ UpTo(e.epoch, e.to, p.epoch, p.last)
    /\ p.dir = "tail" \/ p.reset \/ (p.dir = "after" /\ ~p.newer) => e.epoch = p.epoch /\ e.to = p.last
    /\ p.dir = "before" /\ ~p.reset => e.epoch = b.epoch /\ e.to = b.to
    /\ p.dir = "after" /\ p.newer => p.to # 0 /\ UpTo(p.epoch, p.to, e.epoch, e.to)

\* Any page that is not discarded leaves one range, which ends no earlier than before
LEMMA ResultIs ==
    ASSUME NEW c \in Chats, c.synced, RangeOK(c), NEW p \in TimePages, PageTells(p), ~Discards(c, p),
           UpTo(c.range.epoch, c.range.to, p.epoch, p.last),
           p.dir = "after" => UpTo(p.request.epoch, p.request.seq, c.range.epoch, c.range.to)
    PROVE  /\ Result(c, p) \in Chats /\ OtherRows(c, Result(c, p)) /\ RangeOK(Result(c, p))
           /\ Grows(c.range, Result(c, p).range, p)
<1> DEFINE r == Result(c, p)
           e == c.range.epoch
           a == c.range.from
           b == c.range.to
           f == p.epoch
           n == p.last
           x == p.from
           y == p.to
           g == p.request.epoch
           s == p.request.seq
<1>1. /\ e \in Nat /\ a \in Nat /\ b \in Nat /\ e # 0 /\ a # 0 /\ a <= b
  BY DEF RangeOK, Chats, Ranges
<1>2. /\ f \in Nat /\ n \in Nat /\ x \in Nat /\ y \in Nat /\ g \in Nat /\ s \in Nat
      /\ f # 0 /\ n # 0 /\ p.older \in BOOLEAN /\ PageSize \in Nat
      /\ p.dir \in {"tail", "after", "before"}
  BY PageSizeIs DEF TimePages, PageTells, Fetched, RequestOK, LatestRows, IsAfter, IsBefore
<1>3. /\ \/ x = 0 /\ y = 0 /\ ~p.older
         \/ x # 0 /\ x <= y /\ (p.older <=> x > 1)
      /\ p.dir = "tail" \/ p.reset => y = n /\ ~p.newer /\ Wide(p) /\ y + 1 <= x + PageSize
      /\ p.dir # "tail" /\ ~p.reset => f = g
      /\ p.dir = "after" /\ ~p.reset =>
            /\ y <= n
            /\ y # 0 => x = s + 1 /\ y + 1 <= x + PageSize
            /\ ~p.newer => y = n \/ (y = 0 /\ s >= n)
            /\ p.newer => y # 0
  BY DEF PageTells
<1>4. UpTo(e, b, f, n) /\ (p.dir = "after" => UpTo(g, s, e, b))
  OBVIOUS
<1>5. c.range # NoRange
  BY DEF RangeOK, NoRange
<1>6. y # 0 => Filled(p) \/ ~(y + 1 <= x + PageSize)
  BY <1>2, <1>3 DEF Filled
<1>7. CASE Replaces(c, p)
  <2>1. p.dir = "tail" \/ p.reset
    BY <1>7 DEF Replaces, Bootstraps, OfKnownRange
  <2>2. y = n /\ ~p.newer /\ Wide(p) /\ Filled(p)
    BY <1>2, <1>3, <1>6, <2>1
  <2>3. r = PageAlone(c, p)
    BY <1>7 DEF Result
  <2>4. r \in Chats /\ OtherRows(c, r) /\ RangeOK(r) /\ r.range = [epoch |-> f, from |-> x, to |-> y]
    BY <2>2, <2>3, PageAloneIs DEF RangeOK
  <2>5. r.range.epoch = f /\ r.range.to = n
    BY <2>2, <2>4
  <2> HIDE DEF r
  <2>6. UpTo(f, n, f, n)
    BY <1>2 DEF UpTo
  <2>7. Grows(c.range, r.range, p)
    BY <1>4, <2>1, <2>2, <2>5, <2>6 DEF Grows
  <2> QED
    BY <2>4, <2>7 DEF r
<1>8. CASE ~Replaces(c, p)
  <2>1. ~p.reset /\ r = Extended(c, p)
    BY <1>8 DEF Replaces, Result
  <2>2. OtherRows(c, c)
    BY DEF OtherRows, KeepsCatchUp
  <2>3. UpTo(e, b, e, b)
    BY <1>1 DEF UpTo
  <2>4. CASE p.dir = "tail"
    <3>1. ~Bootstraps(c, p)
      BY <1>8 DEF Replaces
    <3>2. OfKnownRange(c, p)
      BY <1>5, <2>1, <2>4, <3>1 DEF OfKnownRange
    <3>3. e = f /\ ~(n < b) /\ ~(n > b /\ x > b + 1) /\ n # b
      BY <1>8, <3>2 DEF Replaces, Discards
    <3>4. y = n /\ ~p.newer /\ y + 1 <= x + PageSize
      BY <1>3, <2>4
    <3> HIDE DEF r, e, a, b, f, n, x, y, g, s
    <3>5. y > b /\ x <= b + 1 /\ y # 0 /\ ~(y <= b)
      BY <1>1, <1>2, <3>3, <3>4
    <3>6. r = Longer(c, p)
      BY <1>5, <2>1, <2>4, <3>3, <3>5 DEF Extended, Longer, e, f, b, x, y
    <3>7. Filled(p)
      BY <1>6, <3>4, <3>5
    <3>8. r \in Chats /\ OtherRows(c, r) /\ RangeOK(r) /\ r.range.epoch = f /\ r.range.to = y
      BY <3>3, <3>5, <3>6, <3>7, LongerIs DEF e, f, b, x, y
    <3>9. UpTo(f, n, f, n)
      BY <1>2 DEF UpTo
    <3>10. Grows(c.range, r.range, p)
      BY <1>4, <2>4, <3>4, <3>8, <3>9 DEF Grows, e, b, f, n
    <3> QED
      BY <3>8, <3>10 DEF r
  <2>5. CASE p.dir = "before"
    <3>1. CASE y # 0 /\ e = f /\ y + 1 = a
      <4>1. r = Earlier(c, p)
        BY <2>1, <2>5, <3>1 DEF Extended, Earlier
      <4>2. x # 0 /\ x <= y /\ (p.older <=> x > 1)
        BY <1>3, <3>1
      <4>3. r \in Chats /\ OtherRows(c, r) /\ RangeOK(r) /\ r.range.epoch = e /\ r.range.to = b
        BY <3>1, <4>1, <4>2, EarlierIs
      <4> HIDE DEF r
      <4>4. Grows(c.range, r.range, p)
        BY <1>4, <2>1, <2>3, <2>5, <4>3 DEF Grows
      <4> QED
        BY <4>3, <4>4 DEF r
    <3>2. CASE ~(y # 0 /\ e = f /\ y + 1 = a)
      <4>1. r = c
        BY <2>1, <2>5, <3>2 DEF Extended
      <4> HIDE DEF r
      <4>2. Grows(c.range, r.range, p)
        BY <1>4, <2>1, <2>3, <2>5, <4>1 DEF Grows
      <4> QED
        BY <2>2, <4>1, <4>2 DEF r
    <3> QED
      BY <3>1, <3>2
  <2>6. CASE p.dir = "after"
    <3>1. f = g /\ y <= n /\ (y # 0 => x = s + 1 /\ y + 1 <= x + PageSize)
          /\ (~p.newer => y = n \/ (y = 0 /\ s >= n)) /\ (p.newer => y # 0)
      BY <1>3, <2>1, <2>6
    <3>2. UpTo(e, b, f, n) /\ UpTo(f, s, e, b)
      BY <1>4, <2>6, <3>1
    <3> HIDE DEF r, e, a, b, f, n, x, y, g, s
    <3>3. e = f /\ b <= n /\ s <= b
      BY <1>1, <1>2, <3>2 DEF UpTo
    <3>4. CASE y # 0 /\ y > b
      <4>1. x <= b + 1 /\ ~(y <= b) /\ y + 1 <= x + PageSize
        BY <1>1, <1>2, <3>1, <3>3, <3>4
      <4>2. r = Longer(c, p)
        BY <1>5, <2>1, <2>6, <3>3, <3>4, <4>1 DEF Extended, Longer, e, f, b, x, y
      <4>3. Filled(p)
        BY <1>6, <3>4, <4>1
      <4>4. r \in Chats /\ OtherRows(c, r) /\ RangeOK(r) /\ r.range.epoch = f /\ r.range.to = y
        BY <3>3, <3>4, <4>1, <4>2, <4>3, LongerIs DEF e, f, b, x, y
      <4>5. UpTo(e, b, f, y) /\ UpTo(f, y, f, n) /\ UpTo(f, y, f, y)
        BY <1>1, <1>2, <3>1, <3>3, <3>4 DEF UpTo
      <4>6. ~p.newer => y = n
        BY <3>1, <3>4
      <4>7. Grows(c.range, r.range, p)
        BY <2>1, <2>6, <3>4, <4>4, <4>5, <4>6 DEF Grows, e, b, f, n, y
      <4> QED
        BY <4>4, <4>7 DEF r
    <3>5. CASE ~(y # 0 /\ y > b)
      <4>1. y = 0 \/ y <= b
        BY <1>1, <1>2, <3>5
      <4>2. r = c
        BY <1>5, <2>1, <2>6, <4>1 DEF Extended, e, f, b, x, y
      <4>3. ~p.newer => b = n
        BY <1>1, <1>2, <3>1, <3>3, <4>1
      <4>4. p.newer => y # 0 /\ UpTo(f, y, e, b)
        BY <1>1, <1>2, <3>1, <3>3, <4>1 DEF UpTo
      <4>5. Grows(c.range, r.range, p)
        BY <2>1, <2>3, <2>6, <3>2, <3>3, <4>2, <4>3, <4>4 DEF Grows, e, b, f, n, y
      <4> QED
        BY <2>2, <4>2, <4>5 DEF r
    <3> QED
      BY <3>4, <3>5
  <2> QED
    BY <1>2, <2>4, <2>5, <2>6
<1> QED
  BY <1>7, <1>8

\* A page that is neither discarded nor put in place of the rows leaves no gap
LEMMA NoGap ==
    ASSUME NEW c \in Chats, c.synced, RangeOK(c), NEW p \in TimePages, PageTells(p), ~Discards(c, p),
           ~Replaces(c, p), p.dir # "before", p.to # 0, c.range.epoch = p.epoch,
           p.dir = "after" => UpTo(p.request.epoch, p.request.seq, c.range.epoch, c.range.to)
    PROVE  ~(p.from > c.range.to + 1)
<1>1. ~p.reset /\ c.range # NoRange /\ ~Bootstraps(c, p)
  BY DEF Replaces, RangeOK, NoRange
<1>2. p.dir \in {"tail", "after"}
  BY DEF PageTells, RequestOK, LatestRows, IsAfter, IsBefore
<1>3. CASE p.dir = "tail"
  <2>1. OfKnownRange(c, p)
    BY <1>1, <1>3 DEF OfKnownRange
  <2>2. p.last # c.range.to /\ ~(p.last < c.range.to) /\ ~(p.last > c.range.to /\ p.from > c.range.to + 1)
    BY <2>1 DEF Discards, Replaces
  <2>3. p.last \in Nat /\ c.range.to \in Nat
    BY DEF TimePages, Chats, Ranges
  <2> QED
    BY <2>2, <2>3
<1>4. CASE p.dir = "after"
  <2> DEFINE b == c.range.to
             x == p.from
             s == p.request.seq
  <2>1. x = s + 1 /\ p.epoch = p.request.epoch
    BY <1>1, <1>4 DEF PageTells
  <2>2. UpTo(p.epoch, s, p.epoch, b)
    BY <1>4, <2>1
  <2>3. b \in Nat /\ x \in Nat /\ s \in Nat /\ p.epoch \in Nat
    BY DEF TimePages, Chats, Ranges, Fetched
  <2> HIDE DEF b, x, s
  <2>4. s <= b
    BY <2>2, <2>3 DEF UpTo
  <2>5. ~(x > b + 1)
    BY <2>1, <2>3, <2>4
  <2> QED
    BY <2>5 DEF b, x
<1> QED
  BY <1>2, <1>3, <1>4

Settled(c, p) ==
    IF Discards(c, p) THEN [c EXCEPT !.newer = p.newer] ELSE Installed(c, p, Result(c, p))
Taken(c, p) == [Settled(c, p) EXCEPT !.forced = @ /\ p.dir # "tail"]

\* What is stored with a page
LEMMA InstalledIs ==
    ASSUME NEW c \in Chats, NEW p \in TimePages, NEW r \in Chats, OtherRows(c, r),
           c.synced \/ (p.dir # "before" /\ (p.dir = "tail" \/ ~p.newer)),
           NEW d, d = Installed(c, p, r)
    PROVE  /\ d \in Chats /\ d.synced /\ KeepsCatchUp(c, d) /\ d.init = c.init /\ d.forced = c.forced
           /\ d.rows = r.rows \cup r.overlay /\ d.overlay = {} /\ d.range = r.range /\ d.older = r.older
           /\ d.newer \in BOOLEAN
           /\ c.synced /\ p.dir = "before" => d.newer = c.newer
           /\ p.dir # "before" => d.newer = p.newer
<1> DEFINE newer == IF p.dir = "before" THEN c.synced /\ c.newer ELSE p.newer
           f == [r EXCEPT !.synced = TRUE, !.newer = newer, !.rows = r.rows \cup r.overlay, !.overlay = {}]
<1>1. newer \in BOOLEAN /\ r.rows \cup r.overlay \in ChatRows /\ {} \in ChatRows
  BY DEF Chats, ChatRows, TimePages
<1>2. (c.synced \/ (p.dir # "before" /\ (p.dir = "tail" \/ ~p.newer))) = TRUE
  OBVIOUS
<1>3. d = f
  BY <1>2 DEF Installed
<1> HIDE DEF newer
<1>4. /\ f \in Chats /\ f.synced /\ KeepsCatchUp(r, f) /\ f.init = r.init /\ f.forced = r.forced
      /\ f.rows = r.rows \cup r.overlay /\ f.overlay = {} /\ f.range = r.range /\ f.older = r.older
      /\ f.newer = newer
  BY <1>1 DEF Chats, KeepsCatchUp
<1> HIDE DEF f
<1>5. KeepsCatchUp(c, f) /\ f.init = c.init /\ f.forced = c.forced
  BY <1>4 DEF OtherRows, KeepsCatchUp
<1>6. /\ c.synced /\ p.dir = "before" => newer = c.newer
      /\ p.dir # "before" => newer = p.newer
  BY DEF newer, Chats
<1> QED
  BY <1>1, <1>3, <1>4, <1>5, <1>6

\* A page that is taken or discarded leaves one range
LEMMA TakenIs ==
    ASSUME NEW c \in Chats, c.synced, RangeOK(c), NEW p \in TimePages, PageTells(p),
           UpTo(c.range.epoch, c.range.to, p.epoch, p.last),
           p.dir = "after" => UpTo(p.request.epoch, p.request.seq, c.range.epoch, c.range.to),
           NEW d, d = Taken(c, p)
    PROVE  /\ d \in Chats /\ d.synced /\ KeepsCatchUp(c, d) /\ RangeOK(d) /\ d.init = c.init
           /\ Grows(c.range, d.range, p)
           /\ p.dir = "before" => d.newer = c.newer
           /\ p.dir # "before" => d.newer = p.newer
<1> DEFINE s == Settled(c, p)
<1>1. /\ s \in Chats /\ s.synced /\ KeepsCatchUp(c, s) /\ RangeOK(s) /\ s.init = c.init
      /\ Grows(c.range, s.range, p)
      /\ p.dir = "before" => s.newer = c.newer
      /\ p.dir # "before" => s.newer = p.newer
  <2>1. CASE Discards(c, p)
    <3>1. p.dir = "tail" /\ c.range.epoch = p.epoch /\ p.last = c.range.to /\ ~p.newer
      BY <2>1 DEF Discards, OfKnownRange, PageTells
    <3>2. s = [c EXCEPT !.newer = p.newer] /\ p.newer \in BOOLEAN
      BY <2>1 DEF Settled, TimePages
    <3>3. /\ s \in Chats /\ s.synced /\ KeepsCatchUp(c, s) /\ s.init = c.init /\ s.newer = p.newer
          /\ s.rows = c.rows /\ s.overlay = c.overlay /\ s.range = c.range /\ s.older = c.older
      BY <3>2 DEF Chats, KeepsCatchUp
    <3> HIDE DEF s
    <3>4. RangeOK(s)
      BY <3>3 DEF RangeOK
    <3>5. Grows(c.range, s.range, p)
      BY <3>1, <3>3 DEF Grows
    <3> QED
      BY <3>1, <3>3, <3>4, <3>5
  <2>2. CASE ~Discards(c, p)
    <3> DEFINE r == Result(c, p)
    <3>1. /\ r \in Chats /\ OtherRows(c, r) /\ RangeOK(r) /\ Grows(c.range, r.range, p)
      BY <2>2, ResultIs
    <3>2. s = Installed(c, p, r)
      BY <2>2 DEF Settled
    <3> HIDE DEF r, s
    <3>3. /\ s \in Chats /\ s.synced /\ KeepsCatchUp(c, s) /\ s.init = c.init
          /\ s.rows = r.rows \cup r.overlay /\ s.overlay = {} /\ s.range = r.range /\ s.older = r.older
          /\ p.dir = "before" => s.newer = c.newer
          /\ p.dir # "before" => s.newer = p.newer
      BY <3>1, <3>2, InstalledIs
    <3>4. RangeOK(s)
      BY <3>1, <3>3 DEF RangeOK
    <3> QED
      BY <3>1, <3>3, <3>4
  <2> QED
    BY <2>1, <2>2
<1>2. d = [s EXCEPT !.forced = @ /\ p.dir # "tail"]
  BY DEF Taken
<1> HIDE DEF s
<1>3. /\ d \in Chats /\ d.synced /\ KeepsCatchUp(s, d) /\ d.init = s.init /\ d.newer = s.newer
      /\ d.rows = s.rows /\ d.overlay = s.overlay /\ d.range = s.range /\ d.older = s.older
  BY <1>1, <1>2 DEF Chats, KeepsCatchUp
<1>4. KeepsCatchUp(c, d)
  BY <1>1, <1>3 DEF KeepsCatchUp
<1>5. RangeOK(d)
  BY <1>1, <1>3 DEF RangeOK
<1> QED
  BY <1>1, <1>3, <1>4, <1>5
\* The page as the app takes it: a forced tail replaces all
AsForced(c, page) == [page EXCEPT !.reset = @ \/ (page.dir = "tail" /\ c.forced)]

\* A forced tail is read as a reset; nothing else about a page changes
LEMMA AsForcedIs ==
    ASSUME NEW c \in Chats, NEW page \in TimePages, PageIs(page), NEW p, p = AsForced(c, page)
    PROVE  /\ p \in TimePages /\ PageTells(p)
           /\ p.dir = page.dir /\ p.request = page.request /\ p.epoch = page.epoch /\ p.last = page.last
           /\ p.from = page.from /\ p.to = page.to /\ p.older = page.older /\ p.newer = page.newer
           /\ p.reset <=> page.reset \/ (page.dir = "tail" /\ c.forced)
<1>1. (page.reset \/ (page.dir = "tail" /\ c.forced)) \in BOOLEAN
  OBVIOUS
<1>2. /\ p \in TimePages
      /\ p.dir = page.dir /\ p.request = page.request /\ p.epoch = page.epoch /\ p.last = page.last
      /\ p.from = page.from /\ p.to = page.to /\ p.older = page.older /\ p.newer = page.newer
      /\ p.reset <=> page.reset \/ (page.dir = "tail" /\ c.forced)
  BY <1>1 DEF AsForced, TimePages
<1>3. PageTells(page) /\ (page.dir = "tail" => ~page.reset)
  BY DEF PageIs
<1>4. Wide(page) <=> Wide(p)
  BY <1>2 DEF Wide
<1>5. p.reset => page.reset \/ page.dir = "tail"
  BY <1>2
<1>6. page.reset => p.reset
  BY <1>2
<1>7. PageTells(p)
  BY <1>2, <1>3, <1>4, <1>5, <1>6 DEF PageTells
<1> QED
  BY <1>2, <1>7

Followed(c, p, done) ==
    IF Bootstraps(c, p) /\ p.to # 0 THEN RecoversGap(done, p.epoch, p.to)
    ELSE IF /\ ~Discards(c, p) /\ ~Replaces(c, p) /\ p.dir # "before" /\ p.to # 0
            /\ c.range # NoRange /\ c.range.epoch = p.epoch /\ p.from > c.range.to + 1
    THEN RecoversGap(done, c.range.epoch, c.range.to) ELSE done

Resolves(c, p) == p.reset \/ (p.dir = c.init /\ ~(p.dir = "after" /\ p.newer))

\* What a page does to the store, in three steps
LEMMA ReconciledIs ==
    ASSUME NEW c, NEW page
    PROVE  LET p == AsForced(c, page)
               f == Followed(c, p, Taken(c, p))
           IN  Reconciled(c, page) = [f EXCEPT !.init = IF Resolves(c, p) THEN "none" ELSE @]
BY DEF Reconciled, AsForced, Followed, Taken, Settled, Result, Resolves

\* What is told up to a row is told up to the earlier ones
LEMMA KnownDown ==
    ASSUME NEW t \in Times, NEW l \in TimeLinks, NEW f \in Nat, NEW n \in Nat, KnownOK(t, l, f, n),
           NEW e \in Nat, NEW k \in Nat, UpTo(e, k, f, n)
    PROVE  KnownOK(t, l, e, k)
<1>1. t.epoch \in Nat /\ t.last \in Nat
  BY DEF Times
<1>2. ASSUME NEW x \in Nat, NEW y \in Nat, UpTo(f, n, x, y) PROVE UpTo(e, k, x, y)
  BY <1>2, UpToSteps
<1>3. UpTo(e, k, t.epoch, t.last)
  BY <1>1, <1>2 DEF KnownOK
<1>4. ASSUME NEW i \in 1..Len(l.down), IsTold(l.down[i])
      PROVE  UpTo(e, k, l.down[i].epoch, PointOf(l.down[i]))
  <2>1. l.down[i] \in TimeMail
    BY DEF TimeLinks
  <2>2. l.down[i].epoch \in Nat /\ PointOf(l.down[i]) \in Nat
    BY <1>4, <2>1, MailIs
  <2>3. UpTo(f, n, l.down[i].epoch, PointOf(l.down[i]))
    BY <1>4 DEF KnownOK
  <2> QED
    BY <1>2, <2>2, <2>3
<1> QED
  BY <1>3, <1>4 DEF KnownOK

\* What follows a page on the line
LEMMA PageBehind ==
    ASSUME NEW t, NEW l, NEW c, TimelineAt(t, l, c), l.down # <<>>, IsPage(l.down[1])
    PROVE  /\ l.down[1] \in TimePages /\ PageIs(l.down[1]) /\ l.down[1].request \in InFlight(l)
           /\ NoneBehind(l, l.down[1].request) => NoAfter(Behind(l))
           /\ ToAcknowledge(l.down) => ToAcknowledge(Tail(l.down))
           /\ c.member = "acknowledged" => Rest(t, Tail(l.down), 0, l.down[1].epoch, l.down[1].last)
           /\ \A x, n \in Nat : Rest(t, l.down, 0, x, n) => Rest(t, Tail(l.down), 0, x, n)
           /\ KnownOK(t, Behind(l), l.down[1].epoch, l.down[1].last)
           /\ \A e, n : KnownOK(t, l, e, n) => UpTo(e, n, l.down[1].epoch, l.down[1].last)
           /\ \A r \in InFlight(l) : r # l.down[1].request => r \in InFlight(Behind(l))
<1>1. t \in Times /\ l \in TimeLinks /\ LineOK(t, l) /\ PagesOK(t, l, c)
  BY DEF TimelineAt
<1>2. /\ Behind(l).down = Tail(l.down) /\ 1 \in 1..Len(l.down)
      /\ IsTold(l.down[1]) => KnownOK(t, Behind(l), l.down[1].epoch, PointOf(l.down[1]))
  BY <1>1, BehindIs
<1>3. \A m : m = [l EXCEPT !.down = Tail(@)] =>
        (/\ l.down[1] \in TimePages /\ PageIs(l.down[1])
         /\ l.down[1].request \in InFlight(l)
         /\ NoneBehind(l, l.down[1].request) => NoAfter(m)
         /\ ToAcknowledge(l.down) => ToAcknowledge(m.down)
         /\ c.member = "acknowledged" => Rest(t, m.down, 0, l.down[1].epoch, l.down[1].last)
         /\ \A x, n \in Nat : Rest(t, l.down, 0, x, n) => Rest(t, m.down, 0, x, n)
         /\ \A r \in InFlight(l) : r # l.down[1].request => r \in InFlight(m))
  <2> TAKE m
  <2> HAVE m = [l EXCEPT !.down = Tail(@)]
  <2>1. l.down[1] \in TimePages /\ PageIs(l.down[1]) /\ l.down[1].request \in InFlight(l)
    BY <1>1, HeadPage
  <2>2. NoneBehind(l, l.down[1].request) => NoAfter(m)
    BY <1>1, HeadPage
  <2>3. ToAcknowledge(l.down) => ToAcknowledge(m.down)
    BY <1>1, HeadPage
  <2>4. c.member = "acknowledged" => Rest(t, m.down, 0, l.down[1].epoch, l.down[1].last)
    BY <1>1, HeadPage
  <2>5. ASSUME NEW x \in Nat, NEW n \in Nat, Rest(t, l.down, 0, x, n) PROVE Rest(t, m.down, 0, x, n)
    <3>1. l.down \in Seq(TimeMail) /\ m.down = Tail(l.down) /\ ~Counts(l.down[1])
      BY <1>1 DEF TimeLinks, Counts, IsPage
    <3>2. Rest(t, Tail(l.down), 0, x, n)
      BY <1>1, <2>5, <3>1, TailRest
    <3> QED
      BY <3>1, <3>2
  <2>6. \A r \in InFlight(l) : r # l.down[1].request => r \in InFlight(m)
    BY <1>1, HeadPage
  <2> QED
    BY <2>1, <2>2, <2>3, <2>4, <2>5, <2>6, Zenon
<1>4. /\ l.down[1] \in TimePages /\ PageIs(l.down[1]) /\ l.down[1].request \in InFlight(l)
      /\ NoneBehind(l, l.down[1].request) => NoAfter(Behind(l))
      /\ ToAcknowledge(l.down) => ToAcknowledge(Behind(l).down)
      /\ c.member = "acknowledged" => Rest(t, Behind(l).down, 0, l.down[1].epoch, l.down[1].last)
      /\ \A x, n \in Nat : Rest(t, l.down, 0, x, n) => Rest(t, Behind(l).down, 0, x, n)
      /\ \A r \in InFlight(l) : r # l.down[1].request => r \in InFlight(Behind(l))
  BY <1>3, Zenon DEF Behind
<1>5. IsTold(l.down[1]) /\ PointOf(l.down[1]) = l.down[1].last
  <2>1. IsPage(l.down[1]) /\ ~IsRow(l.down[1])
    BY DEF IsPage, IsRow
  <2> QED
    BY <2>1 DEF IsTold, PointOf
<1>6. KnownOK(t, Behind(l), l.down[1].epoch, l.down[1].last)
  BY <1>2, <1>5
<1>7. ASSUME NEW e, NEW n, KnownOK(t, l, e, n) PROVE UpTo(e, n, l.down[1].epoch, l.down[1].last)
  <2>1. UpTo(e, n, l.down[1].epoch, PointOf(l.down[1]))
    BY <1>2, <1>5, <1>7 DEF KnownOK
  <2> QED
    BY <1>5, <2>1
<1> HIDE <1>3
<1>8. \A e, n : KnownOK(t, l, e, n) => UpTo(e, n, l.down[1].epoch, l.down[1].last)
  BY <1>7, Zenon
<1> QED
  BY <1>2, <1>4, <1>6, <1>8, Zenon

\* A chat with rows takes a page
LEMMA SyncedPage ==
    ASSUME NEW t, NEW l, NEW c, TimelineAt(t, l, c), l.down # <<>>, c.synced, IsPage(l.down[1]),
           NEW d, d = Reconciled(c, l.down[1])
    PROVE  /\ TimelineAt(t, Behind(l), d) /\ d.synced
           /\ d.member = c.member /\ d.replacing = c.replacing /\ d.scroll = c.scroll
           /\ Grows(c.range, d.range, l.down[1])
           /\ l.down[1].dir = "before" => d.newer = c.newer
           /\ l.down[1].dir # "before" => d.newer = l.down[1].newer
<1> DEFINE m == Behind(l)
           q == l.down[1]
           p == AsForced(c, q)
           s == Taken(c, p)
           f == Followed(c, p, s)
<1>1. /\ t \in Times /\ l \in TimeLinks /\ c \in Chats
      /\ LineOK(t, l) /\ MemberOK(t, l, c) /\ PagesOK(t, l, c) /\ CatchUpOK(l, c)
      /\ CompleteOK(t, l, c) /\ SyncedOK(t, l, c) /\ RangeOK(c)
  BY DEF TimelineAt, SyncedOK
<1>2. /\ l.up /\ m \in TimeLinks /\ m.up /\ m.subscribed = l.subscribed /\ LineOK(t, m)
      /\ m.down = Tail(l.down) /\ q \in TimeMail /\ 1 \in 1..Len(l.down)
      /\ IsTold(q) => KnownOK(t, m, q.epoch, PointOf(q))
      /\ PagesOK(t, m, c)
  BY <1>1, BehindIs
<1> HIDE DEF m
<1>4. /\ q \in TimePages /\ PageIs(q) /\ q.request \in InFlight(l)
      /\ ToAcknowledge(l.down) => ToAcknowledge(m.down)
      /\ c.member = "acknowledged" => Rest(t, m.down, 0, q.epoch, q.last)
      /\ \A x, n \in Nat : Rest(t, l.down, 0, x, n) => Rest(t, m.down, 0, x, n)
  BY <1>2, PageBehind
<1>5. KnownOK(t, m, q.epoch, q.last) /\ UpTo(c.range.epoch, c.range.to, q.epoch, q.last)
  BY <1>1, PageBehind DEF SyncedOK, m
<1> HIDE DEF q
<1>6. /\ p \in TimePages /\ PageTells(p)
      /\ p.dir = q.dir /\ p.request = q.request /\ p.epoch = q.epoch /\ p.last = q.last
      /\ p.from = q.from /\ p.to = q.to /\ p.older = q.older /\ p.newer = q.newer
      /\ p.reset <=> q.reset \/ (q.dir = "tail" /\ c.forced)
  BY <1>1, <1>4, AsForcedIs
<1>7. d = [f EXCEPT !.init = IF Resolves(c, p) THEN "none" ELSE @]
  BY ReconciledIs DEF q
<1> HIDE DEF p
<1>8. p.dir = "after" => UpTo(p.request.epoch, p.request.seq, c.range.epoch, c.range.to)
  <2>1. p.dir = p.request.dir /\ p.request \in InFlight(l)
    BY <1>4, <1>6 DEF PageTells
  <2> QED
    BY <1>1, <2>1 DEF SyncedOK, AfterUpTo, IsAfter
<1>9. /\ s \in Chats /\ s.synced /\ KeepsCatchUp(c, s) /\ RangeOK(s) /\ s.init = c.init
      /\ Grows(c.range, s.range, p)
      /\ p.dir = "before" => s.newer = c.newer
      /\ p.dir # "before" => s.newer = p.newer
  BY <1>1, <1>5, <1>6, <1>8, TakenIs
<1> HIDE DEF s
<1>10. p.dir \in {"tail", "after", "before"} /\ (p.dir = "tail" \/ p.reset => p.to = p.last /\ ~p.newer)
  <2>1. p.dir \in {"tail", "after", "before"}
    <3>1. RequestOK(p.request) /\ p.dir = p.request.dir
      BY <1>6 DEF PageTells
    <3>2. p.request.dir \in {"tail", "after", "before"}
      BY <3>1 DEF RequestOK, LatestRows, IsAfter, IsBefore
    <3> QED
      BY <3>1, <3>2
  <2>2. p.dir = "tail" \/ p.reset => p.to = p.last /\ ~p.newer
    BY <1>6 DEF PageTells
  <2> QED
    BY <2>1, <2>2
<1>11. c.member # "acknowledged" => p.dir = "before"
  <2>1. c.member # "acknowledged" => IsBefore(q.request)
    BY <1>1, <1>4 DEF MemberOK
  <2> QED
    BY <1>6, <2>1 DEF PageTells, IsBefore
<1>12. c.member # "acknowledged" /\ l.subscribed => ToAcknowledge(Tail(l.down))
  BY <1>1, <1>2, <1>4 DEF MemberOK
<1>13. s.range.epoch \in Nat /\ s.range.to \in Nat /\ q.epoch \in Nat /\ q.last \in Nat
       /\ c.range.epoch \in Nat /\ c.range.to \in Nat
  BY <1>1, <1>4, <1>9 DEF Chats, Ranges, TimePages
<1>14. KnownOK(t, m, s.range.epoch, s.range.to)
  <2>1. UpTo(s.range.epoch, s.range.to, q.epoch, q.last)
    BY <1>6, <1>9 DEF Grows
  <2> DEFINE e == s.range.epoch
             k == s.range.to
             x == q.epoch
             n == q.last
  <2>2. e \in Nat /\ k \in Nat /\ x \in Nat /\ n \in Nat /\ KnownOK(t, m, x, n) /\ UpTo(e, k, x, n)
    BY <1>5, <1>13, <2>1
  <2> HIDE DEF e, k, x, n
  <2>3. KnownOK(t, m, e, k)
    BY <1>1, <1>2, <2>2, KnownDown
  <2> QED
    BY <2>3 DEF e, k
<1>15. UpTo(c.range.epoch, c.range.to, s.range.epoch, s.range.to)
  BY <1>9 DEF Grows
<1>16. CompleteOK(t, m, s)
  <2> SUFFICES ASSUME s.catchUp.status = "complete"
               PROVE  ~s.newer /\ (s.replacing \/ Rest(t, m.down, 0, s.range.epoch, s.range.to))
    BY <1>9 DEF CompleteOK
  <2>1. /\ c.catchUp.status = "complete" /\ s.replacing = c.replacing /\ ~c.newer
        /\ c.replacing \/ Rest(t, l.down, 0, c.range.epoch, c.range.to)
    BY <1>1, <1>9 DEF KeepsCatchUp, CompleteOK
  <2>2. c.member = "acknowledged"
    BY <1>1, <2>1 DEF MemberOK, NoCatchUp
  <2>3. p.dir # "after"
    BY <1>1, <1>4, <1>6, <2>1 DEF CatchUpOK, NoAfter, IsAfter, PageTells
  <2>4. ~s.newer
    BY <1>9, <1>10, <2>1, <2>3
  <2>5. CASE p.dir = "tail" \/ p.reset
    BY <1>4, <1>6, <1>9, <2>2, <2>4, <2>5 DEF Grows
  <2>6. CASE p.dir = "before" /\ ~p.reset
    BY <1>4, <1>9, <1>13, <2>1, <2>4, <2>6 DEF Grows
  <2> QED
    BY <1>10, <2>3, <2>5, <2>6
<1>17. TimelineAt(t, m, s)
  BY <1>9, <1>12, <1>14, <1>15, <1>16, Shows DEF m
<1>18. TimelineAt(t, m, f) /\ KeepsStore(s, f)
  <2>1. CASE Bootstraps(c, p) /\ p.to # 0
    <3>1. p.dir = "tail"
      BY <2>1 DEF Bootstraps
    <3>2. p.epoch = s.range.epoch /\ p.to = s.range.to /\ s.member = "acknowledged"
      BY <1>9, <1>10, <1>11, <3>1 DEF Grows, KeepsCatchUp
    <3>3. f = RecoversGap(s, p.epoch, p.to)
      BY <2>1 DEF Followed
    <3> QED
      BY <1>9, <1>17, <3>2, <3>3, RecoversBehindRange
  <2>2. CASE ~(Bootstraps(c, p) /\ p.to # 0)
    <3>1. ~(/\ ~Discards(c, p) /\ ~Replaces(c, p) /\ p.dir # "before" /\ p.to # 0
            /\ c.range # NoRange /\ c.range.epoch = p.epoch /\ p.from > c.range.to + 1)
      BY <1>1, <1>6, <1>8, NoGap
    <3>2. f = s
      BY <2>2, <3>1 DEF Followed
    <3> QED
      BY <1>17, <3>2 DEF KeepsStore
  <2> QED
    BY <2>1, <2>2
<1> HIDE DEF f
<1>19. f \in Chats /\ f.synced /\ MemberOK(t, m, f)
  BY <1>9, <1>18 DEF TimelineAt, KeepsStore
<1>20. /\ d \in Chats /\ KeepsStore(f, d) /\ d.catchUp = f.catchUp /\ d.owed = f.owed /\ d.error = f.error
  BY <1>7, <1>19 DEF Chats, KeepsStore
<1>21. TimelineAt(t, m, d)
  BY <1>18, <1>19, <1>20, Alike DEF MemberOK
<1>22. /\ d.synced /\ d.member = c.member /\ d.replacing = c.replacing /\ d.scroll = c.scroll
       /\ d.range = s.range /\ d.newer = s.newer
  BY <1>9, <1>18, <1>20 DEF KeepsStore, KeepsCatchUp
<1>23. Grows(c.range, d.range, q)
  BY <1>6, <1>9, <1>22 DEF Grows
<1> QED
  BY <1>6, <1>9, <1>21, <1>22, <1>23 DEF m, q
-----------------------------------------------------------------------------
(* The catch-up goes on from a page *)
Completed(c) == Ready([c EXCEPT !.catchUp.status = "complete", !.catchUp.forcing = FALSE])
FallenBack(c) == [c EXCEPT !.catchUp.at = LatestRows, !.catchUp.forcing = TRUE, !.forced = TRUE]
GoneOn(c, r) == Fetches([c EXCEPT !.catchUp.at = r], r)
Cleared(c, p) == [c EXCEPT !.replacing = @ /\ p.request # LatestRows,
                           !.scroll = IF @ = p.request THEN NoRequest ELSE @]

\* The catch-up goes on only when the page is the one it waits for
LEMMA AfterPageIs ==
    ASSUME NEW c, NEW d, NEW p
    PROVE  /\ /\ c.catchUp.status = "running" /\ c.catchUp.at = p.request /\ d.catchUp = c.catchUp
              => AfterPage(c, d, p) = Cleared(Continues(d, p), p)
           /\ ~(/\ c.catchUp.status = "running" /\ c.catchUp.at = p.request /\ d.catchUp = c.catchUp)
              => AfterPage(c, d, p) = Cleared(d, p)
BY DEF AfterPage, Cleared

\* The tail that was fetched for a replacement has come
LEMMA ClearedIs ==
    ASSUME NEW t, NEW m, NEW c, TimelineAt(t, m, c), NEW p,
           p.request = LatestRows /\ c.catchUp.status = "complete"
             => Rest(t, m.down, 0, c.range.epoch, c.range.to)
    PROVE  TimelineAt(t, m, Cleared(c, p))
<1> DEFINE d == Cleared(c, p)
           live == c.replacing /\ p.request # LatestRows
           seen == IF c.scroll = p.request THEN NoRequest ELSE c.scroll
<1>1. c \in Chats /\ t \in Times /\ m \in TimeLinks
  BY DEF TimelineAt
<1>2. live \in BOOLEAN /\ seen \in Fetched
  BY <1>1 DEF Chats, Fetched, NoRequest
<1>3. d = [c EXCEPT !.replacing = live, !.scroll = seen]
  BY DEF Cleared
<1>4. (live => c.replacing) /\ (c.replacing /\ ~live => p.request = LatestRows)
  OBVIOUS
<1>5. seen = NoRequest \/ seen = c.scroll
  OBVIOUS
<1> HIDE DEF d, live, seen
<1>6. /\ d \in Chats /\ d.member = c.member /\ d.catchUp = c.catchUp /\ d.owed = c.owed /\ d.error = c.error
      /\ d.synced = c.synced /\ d.rows = c.rows /\ d.overlay = c.overlay /\ d.range = c.range
      /\ d.older = c.older /\ d.newer = c.newer /\ d.init = c.init /\ d.forced = c.forced
      /\ d.replacing = live /\ d.scroll = seen
  BY <1>1, <1>2, <1>3 DEF Chats
<1>7. MemberOK(t, m, c) /\ PagesOK(t, m, c) /\ CatchUpOK(m, c) /\ CompleteOK(t, m, c) /\ LineOK(t, m)
      /\ (c.synced => SyncedOK(t, m, c)) /\ (~c.synced => FreshOK(t, m, c))
  BY DEF TimelineAt
<1>8. MemberOK(t, m, d)
  BY <1>4, <1>5, <1>6, <1>7 DEF MemberOK
<1>9. PagesOK(t, m, d)
  BY <1>6, <1>7 DEF PagesOK
<1>10. CatchUpOK(m, d)
  BY <1>6, <1>7 DEF CatchUpOK, Bound
<1>11. CompleteOK(t, m, d)
  BY <1>4, <1>6, <1>7 DEF CompleteOK
<1>12. d.synced => SyncedOK(t, m, d)
  BY <1>6, <1>7 DEF SyncedOK, RangeOK
<1>13. ResumeRequest(d) = ResumeRequest(c)
  BY <1>6 DEF ResumeRequest
<1>14. ~d.synced => FreshOK(t, m, d)
  BY <1>5, <1>6, <1>7, <1>13 DEF FreshOK
<1> QED
  BY <1>1, <1>6, <1>7, <1>8, <1>9, <1>10, <1>11, <1>12, <1>14 DEF TimelineAt, d

\* The end of a catch-up touches no rows
LEMMA CompletedIs ==
    ASSUME NEW c \in Chats
    PROVE  /\ Completed(c) \in Chats /\ KeepsStore(c, Completed(c)) /\ Completed(c).owed = c.owed
           /\ Completed(c).catchUp.status = "complete"
<1> DEFINE k == [c.catchUp EXCEPT !.status = "complete", !.forcing = FALSE]
<1>1. k \in CatchUps /\ k.status = "complete"
  BY DEF Chats, CatchUps
<1>2. Completed(c) = [c EXCEPT !.catchUp = k, !.pending = FALSE, !.error = FALSE, !.retrying = FALSE]
  BY DEF Completed, Ready, Chats
<1> HIDE DEF k
<1> QED
  BY <1>1, <1>2 DEF Chats, KeepsStore

\* A catch-up that ends leaves nothing out
LEMMA Completes ==
    ASSUME NEW t, NEW m, NEW c, Subscribed(t, m, c), c.synced, Stored(t, m, c), c.owed = NoRequest,
           NoAfter(m), ~c.newer, Rest(t, m.down, 0, c.range.epoch, c.range.to)
    PROVE  /\ TimelineAt(t, m, Completed(c))
           /\ Completed(c).range = c.range
<1> DEFINE d == Completed(c)
<1>1. /\ t \in Times /\ m \in TimeLinks /\ c \in Chats /\ LineOK(t, m) /\ PagesOK(t, m, c)
      /\ c.member = "acknowledged" /\ m.subscribed
      /\ c.scroll = NoRequest \/ (RequestOK(c.scroll) /\ IsBefore(c.scroll))
  BY DEF Subscribed
<1>2. /\ d \in Chats /\ KeepsStore(c, d) /\ d.owed = NoRequest /\ d.catchUp.status = "complete"
  BY <1>1, CompletedIs
<1> HIDE DEF d
<1>3. m.up
  BY <1>1 DEF LineOK, NoLink
<1>4. MemberOK(t, m, d)
  BY <1>1, <1>2, <1>3 DEF MemberOK, KeepsStore
<1>5. PagesOK(t, m, d)
  BY <1>1, <1>2 DEF PagesOK, KeepsStore
<1>6. CatchUpOK(m, d)
  BY <1>2 DEF CatchUpOK
<1>7. CompleteOK(t, m, d)
  BY <1>2 DEF CompleteOK, KeepsStore
<1>8. SyncedOK(t, m, d)
  BY <1>2 DEF SyncedOK, Stored, RangeOK, KeepsStore
<1> QED
  BY <1>1, <1>2, <1>4, <1>5, <1>6, <1>7, <1>8 DEF TimelineAt, KeepsStore, d

\* A catch-up ends, falls back to the tail, or asks for the next page
LEMMA ContinuesIs ==
    ASSUME NEW c \in Chats, c.member = "acknowledged", c.owed = NoRequest, NEW p
    PROVE  /\ c.catchUp.forcing \/ ~(p.newer /\ p.to # 0) => Continues(c, p) = Completed(c)
           /\ ~c.catchUp.forcing /\ p.newer /\ p.to # 0 =>
                Continues(c, p) = IF c.catchUp.fallback THEN FallenBack(c)
                                  ELSE GoneOn(c, RowsAfter(p.epoch, p.to))
<1> DEFINE done == [c EXCEPT !.catchUp.status = "complete", !.catchUp.forcing = FALSE]
           ready == Completed(c)
<1>1. /\ ready.member = "acknowledged" /\ ready.owed = NoRequest /\ ready.catchUp # NoCatchUp
  BY CompletedIs DEF KeepsStore, NoCatchUp
<1>2. StartsAcknowledged(ready) = ready
  BY <1>1 DEF StartsAcknowledged
<1>3. Ready(done) = ready
  BY DEF Completed
<1>4. done.owed = NoRequest
  BY DEF Chats
<1>5. EndsCatchUp(done) = ready
  BY <1>3, <1>4 DEF EndsCatchUp
<1>6. Continues(c, p) = IF c.catchUp.forcing THEN StartsAcknowledged(Ready(done))
                        ELSE IF p.newer /\ p.to # 0
                        THEN IF c.catchUp.fallback THEN FallenBack(c)
                             ELSE GoneOn(c, RowsAfter(p.epoch, p.to))
                        ELSE EndsCatchUp(done)
  BY DEF Continues, FallenBack, GoneOn
<1> HIDE DEF done, ready
<1>7. Continues(c, p) = IF c.catchUp.forcing THEN ready
                        ELSE IF p.newer /\ p.to # 0
                        THEN IF c.catchUp.fallback THEN FallenBack(c)
                             ELSE GoneOn(c, RowsAfter(p.epoch, p.to))
                        ELSE ready
  BY <1>2, <1>3, <1>5, <1>6
<1> QED
  BY <1>7 DEF ready

\* Nothing is asked behind what is not there
LEMMA LastOfNone ==
    ASSUME NEW l \in TimeLinks, NoAfter(l), NEW r
    PROVE  LastAfter(l, r)
<1>1. \A x : x \in InFlight(l) => ~IsAfter(x)
  BY DEF NoAfter
<1>2. ASSUME NEW j \in 1..Len(l.asked) PROVE ~IsAfter(l.asked[j])
  BY <1>1, InFlightIs
<1>3. ASSUME NEW j \in 1..Len(l.down), IsPage(l.down[j]) PROVE ~IsAfter(l.down[j].request)
  BY <1>1, <1>3, InFlightIs
<1>4. NoneBehind(l, r)
  BY <1>2, <1>3 DEF NoneBehind
<1>5. AfterUpTo(l, r.epoch, r.seq)
  BY <1>1 DEF AfterUpTo
<1> QED
  BY <1>4, <1>5 DEF LastAfter

\* A synchronized chat waits for another page
LEMMA GoesOn ==
    ASSUME NEW t, NEW m, NEW c, TimelineAt(t, m, c), c.synced, c.member = "acknowledged",
           c.catchUp.status = "running", NoAfter(m),
           NEW d \in Chats, d.member = c.member, d.synced, d.rows = c.rows, d.overlay = c.overlay,
           d.range = c.range, d.older = c.older, d.owed = c.owed, d.scroll = c.scroll,
           d.catchUp.status = "running", d.catchUp.request = c.catchUp.request,
           \/ d.catchUp.forcing /\ d.catchUp.at = LatestRows
           \/ /\ ~d.catchUp.forcing /\ IsAfter(d.catchUp.at) /\ RequestOK(d.catchUp.at)
              /\ UpTo(d.catchUp.at.epoch, d.catchUp.at.seq, c.range.epoch, c.range.to)
    PROVE  TimelineAt(t, m, d)
<1>1. /\ t \in Times /\ m \in TimeLinks /\ LineOK(t, m) /\ MemberOK(t, m, c) /\ PagesOK(t, m, c)
      /\ SyncedOK(t, m, c)
  BY DEF TimelineAt
<1>2. ~IsAfter(LatestRows) /\ ~IsBefore(LatestRows) /\ RequestOK(LatestRows)
  BY DEF IsAfter, IsBefore, LatestRows, RequestOK
<1>3. MemberOK(t, m, d)
  BY <1>1 DEF MemberOK
<1>4. PagesOK(t, m, d)
  BY <1>1 DEF PagesOK
<1>5. LastAfter(m, d.catchUp.at)
  BY <1>1, LastOfNone
<1>6. IsAfter(d.catchUp.at) => ~IsBefore(d.catchUp.at)
  BY DEF IsAfter, IsBefore
<1>7. CatchUpOK(m, d)
  BY <1>2, <1>5, <1>6 DEF CatchUpOK, Bound
<1>8. CompleteOK(t, m, d)
  BY DEF CompleteOK
<1>9. SyncedOK(t, m, d)
  <2>1. RangeOK(d)
    BY <1>1 DEF SyncedOK, RangeOK
  <2> QED
    BY <1>1, <1>2, <2>1 DEF SyncedOK
<1> QED
  BY <1>1, <1>3, <1>4, <1>7, <1>8, <1>9 DEF TimelineAt

\* The next page of a catch-up
LEMMA WaitsFor ==
    ASSUME NEW c \in Chats, NEW r \in Fetched, r.dir # "none"
    PROVE  /\ GoneOn(c, r) \in Chats /\ KeepsStore(c, GoneOn(c, r)) /\ GoneOn(c, r).owed = c.owed
           /\ GoneOn(c, r).catchUp = [c.catchUp EXCEPT !.at = r]
           /\ GoneOn(c, r).init = IF c.synced \/ c.init # "none" THEN c.init ELSE r.dir
<1> DEFINE k == [c.catchUp EXCEPT !.at = r]
           init == IF c.synced \/ c.init # "none" THEN c.init ELSE r.dir
<1>1. k \in CatchUps /\ init \in {"none", "tail", "after", "before"}
  BY DEF Chats, CatchUps, Fetched
<1>2. GoneOn(c, r) = [c EXCEPT !.catchUp = k, !.init = init]
  BY DEF GoneOn, Fetches, Chats
<1> HIDE DEF k, init
<1>3. /\ GoneOn(c, r) \in Chats /\ KeepsStore(c, GoneOn(c, r)) /\ GoneOn(c, r).owed = c.owed
      /\ GoneOn(c, r).catchUp = k /\ GoneOn(c, r).init = init
  BY <1>1, <1>2 DEF Chats, KeepsStore
<1> QED
  BY <1>3 DEF k, init

\* The fallback to the tail
LEMMA FallenBackIs ==
    ASSUME NEW c \in Chats
    PROVE  /\ FallenBack(c) \in Chats /\ FallenBack(c).member = c.member /\ FallenBack(c).owed = c.owed
           /\ FallenBack(c).synced = c.synced /\ FallenBack(c).rows = c.rows
           /\ FallenBack(c).overlay = c.overlay /\ FallenBack(c).range = c.range
           /\ FallenBack(c).older = c.older /\ FallenBack(c).newer = c.newer
           /\ FallenBack(c).replacing = c.replacing /\ FallenBack(c).scroll = c.scroll
           /\ FallenBack(c).init = c.init /\ FallenBack(c).forced
           /\ FallenBack(c).catchUp = [c.catchUp EXCEPT !.at = LatestRows, !.forcing = TRUE]
           /\ FallenBack(c).catchUp \in CatchUps
<1> DEFINE k == [c.catchUp EXCEPT !.at = LatestRows, !.forcing = TRUE]
<1>1. k \in CatchUps
  BY DEF Chats, CatchUps, LatestRows, Fetched
<1>2. FallenBack(c) = [c EXCEPT !.catchUp = k, !.forced = TRUE]
  BY DEF FallenBack, Chats
<1> HIDE DEF k
<1>3. /\ FallenBack(c) \in Chats /\ FallenBack(c).member = c.member /\ FallenBack(c).owed = c.owed
      /\ FallenBack(c).synced = c.synced /\ FallenBack(c).rows = c.rows
      /\ FallenBack(c).overlay = c.overlay /\ FallenBack(c).range = c.range
      /\ FallenBack(c).older = c.older /\ FallenBack(c).newer = c.newer
      /\ FallenBack(c).replacing = c.replacing /\ FallenBack(c).scroll = c.scroll
      /\ FallenBack(c).init = c.init /\ FallenBack(c).forced
      /\ FallenBack(c).catchUp = k
  BY <1>1, <1>2 DEF Chats
<1> QED
  BY <1>1, <1>3 DEF k
\* A synchronized chat goes on from a page that was taken
LEMMA ContinuesSynced ==
    ASSUME NEW t, NEW m, NEW c, TimelineAt(t, m, c), c.synced, c.member = "acknowledged",
           c.catchUp.status = "running", NoAfter(m),
           NEW p \in TimePages, PageTells(p), p.request = c.catchUp.at, p.dir # "before",
           c.newer = p.newer, Rest(t, m.down, 0, p.epoch, p.last),
           p.dir = "tail" \/ p.reset \/ (p.dir = "after" /\ ~p.newer) =>
              c.range.epoch = p.epoch /\ c.range.to = p.last,
           p.dir = "after" /\ p.newer => p.to # 0 /\ UpTo(p.epoch, p.to, c.range.epoch, c.range.to)
    PROVE  TimelineAt(t, m, Continues(c, p)) /\ Continues(c, p).range = c.range
<1>1. /\ t \in Times /\ m \in TimeLinks /\ c \in Chats /\ LineOK(t, m) /\ MemberOK(t, m, c)
      /\ PagesOK(t, m, c) /\ SyncedOK(t, m, c)
  BY DEF TimelineAt
<1>2. Subscribed(t, m, c) /\ Stored(t, m, c) /\ c.owed = NoRequest
  BY <1>1 DEF Subscribed, Stored, SyncedOK, MemberOK
<1>3. p.dir \in {"tail", "after"} /\ p.dir = p.request.dir
  <2>1. RequestOK(p.request) /\ p.dir = p.request.dir
    BY DEF PageTells
  <2>2. p.request.dir \in {"tail", "after", "before"}
    BY <2>1 DEF RequestOK, LatestRows, IsAfter, IsBefore
  <2> QED
    BY <2>1, <2>2
<1>4. p.newer => p.dir = "after" /\ ~p.reset
  BY <1>3 DEF PageTells
<1>5. c.catchUp.forcing => p.dir = "tail"
  BY <1>1, <1>3 DEF SyncedOK, LatestRows
<1>6. CASE c.catchUp.forcing \/ ~(p.newer /\ p.to # 0)
  <2>1. Continues(c, p) = Completed(c)
    BY <1>1, <1>2, <1>6, ContinuesIs
  <2>2. ~p.newer
    BY <1>4, <1>5, <1>6
  <2>3. c.range.epoch = p.epoch /\ c.range.to = p.last
    BY <1>3, <2>2
  <2>4. Rest(t, m.down, 0, c.range.epoch, c.range.to)
    BY <2>3
  <2> QED
    BY <1>2, <2>1, <2>2, <2>4, Completes
<1>7. CASE ~c.catchUp.forcing /\ p.newer /\ p.to # 0
  <2>1. p.dir = "after" /\ UpTo(p.epoch, p.to, c.range.epoch, c.range.to)
    BY <1>4, <1>7
  <2>2. CASE c.catchUp.fallback
    <3> DEFINE d == FallenBack(c)
    <3>1. Continues(c, p) = d
      BY <1>1, <1>2, <1>7, <2>2, ContinuesIs
    <3>2. /\ d \in Chats /\ d.member = c.member /\ d.synced /\ d.rows = c.rows /\ d.overlay = c.overlay
          /\ d.range = c.range /\ d.older = c.older /\ d.owed = c.owed /\ d.scroll = c.scroll
          /\ d.catchUp = [c.catchUp EXCEPT !.at = LatestRows, !.forcing = TRUE]
      BY <1>1, FallenBackIs
    <3> HIDE DEF d
    <3>3. /\ d.catchUp.status = "running" /\ d.catchUp.request = c.catchUp.request
          /\ d.catchUp.forcing /\ d.catchUp.at = LatestRows
      BY <1>1, <3>2 DEF Chats, CatchUps
    <3>4. TimelineAt(t, m, d)
      BY <3>2, <3>3, GoesOn
    <3> QED
      BY <3>1, <3>2, <3>4
  <2>3. CASE ~c.catchUp.fallback
    <3> DEFINE r == RowsAfter(p.epoch, p.to)
               d == GoneOn(c, r)
    <3>1. Continues(c, p) = d
      BY <1>1, <1>2, <1>7, <2>3, ContinuesIs
    <3>2. /\ r \in Fetched /\ r.dir = "after" /\ r.epoch = p.epoch /\ r.seq = p.to
          /\ r.epoch # 0 /\ r.seq # 0
      BY <1>7 DEF RowsAfter, Fetched, TimePages, PageTells
    <3> HIDE DEF r
    <3>3. /\ d \in Chats /\ KeepsStore(c, d) /\ d.owed = c.owed
          /\ d.catchUp = [c.catchUp EXCEPT !.at = r]
      BY <1>1, <3>2, WaitsFor
    <3> HIDE DEF d
    <3>4. /\ d.catchUp.status = "running" /\ d.catchUp.request = c.catchUp.request
          /\ ~d.catchUp.forcing /\ d.catchUp.at = r
      BY <1>1, <1>7, <3>3 DEF Chats, CatchUps
    <3>5. /\ IsAfter(d.catchUp.at) /\ RequestOK(d.catchUp.at)
          /\ UpTo(d.catchUp.at.epoch, d.catchUp.at.seq, c.range.epoch, c.range.to)
      BY <2>1, <3>2, <3>4 DEF IsAfter, RequestOK
    <3>6. TimelineAt(t, m, d)
      BY <3>3, <3>4, <3>5, GoesOn DEF KeepsStore
    <3> QED
      BY <3>1, <3>3, <3>6 DEF KeepsStore
  <2> QED
    BY <2>2, <2>3
<1> QED
  BY <1>6, <1>7

\* What is awaited from a page on was asked for last
LEMMA NothingBehind ==
    ASSUME NEW t, NEW l, NEW c, TimelineAt(t, l, c), l.down # <<>>, IsPage(l.down[1]),
           c.catchUp.status = "running", c.catchUp.at = l.down[1].request
    PROVE  NoAfter(Behind(l)) /\ c.member = "acknowledged" /\ l.down[1].request.dir # "before"
<1>1. CatchUpOK(l, c) /\ MemberOK(t, l, c) /\ PagesOK(t, l, c)
  BY DEF TimelineAt
<1>2. RequestOK(c.catchUp.at) /\ ~IsBefore(c.catchUp.at)
      /\ IF IsAfter(c.catchUp.at) THEN LastAfter(l, c.catchUp.at) ELSE NoAfter(l)
  BY <1>1 DEF CatchUpOK, Bound
<1>3. NoneBehind(l, l.down[1].request) => NoAfter(Behind(l))
  BY PageBehind
<1>4. InFlight(Behind(l)) \subseteq InFlight(l)
  BY <1>1, BehindIs
<1>5. NoAfter(l) => NoAfter(Behind(l))
  BY <1>4 DEF NoAfter
<1>6. NoAfter(Behind(l))
  BY <1>2, <1>3, <1>5 DEF LastAfter
<1>7. c.member = "acknowledged"
  BY <1>1 DEF MemberOK, NoCatchUp
<1> QED
  BY <1>2, <1>6, <1>7 DEF IsBefore

\* A chat with rows takes a page and its catch-up goes on
LEMMA SyncedPageStep ==
    ASSUME NEW t, NEW l, NEW c, TimelineAt(t, l, c), l.down # <<>>, c.synced, IsPage(l.down[1])
    PROVE  TimelineAt(t, Behind(l), AfterPage(c, Reconciled(c, l.down[1]), l.down[1]))
<1> DEFINE m == Behind(l)
           p == l.down[1]
           d == Reconciled(c, p)
           mine == c.catchUp.status = "running" /\ c.catchUp.at = p.request /\ d.catchUp = c.catchUp
           e == IF mine THEN Continues(d, p) ELSE d
<1>1. /\ TimelineAt(t, m, d) /\ d.synced
      /\ d.member = c.member /\ Grows(c.range, d.range, p)
      /\ p.dir = "before" => d.newer = c.newer
      /\ p.dir # "before" => d.newer = p.newer
  BY SyncedPage
<1>2. /\ p \in TimePages /\ PageIs(p) /\ p.request \in InFlight(l)
      /\ c.member = "acknowledged" => Rest(t, Tail(l.down), 0, p.epoch, p.last)
  BY PageBehind
<1>3. m.down = Tail(l.down) /\ MemberOK(t, l, c)
  <2>1. PagesOK(t, l, c) /\ MemberOK(t, l, c)
    BY DEF TimelineAt
  <2> QED
    BY <2>1, BehindIs
<1>4. AfterPage(c, d, p) = Cleared(e, p)
  BY AfterPageIs
<1>5. c.catchUp.status = "running" /\ c.catchUp.at = p.request =>
        NoAfter(m) /\ c.member = "acknowledged" /\ p.request.dir # "before"
  BY NothingBehind
<1> HIDE DEF m, p, d
<1>6. PageTells(p) /\ p.dir = p.request.dir
  BY <1>2 DEF PageIs, PageTells
<1>7. TimelineAt(t, m, e) /\ e.range = d.range
  <2>1. CASE mine
    <3>1. /\ d.member = "acknowledged" /\ d.catchUp.status = "running" /\ NoAfter(m)
          /\ p.request = d.catchUp.at /\ p.dir # "before" /\ d.newer = p.newer
          /\ Rest(t, m.down, 0, p.epoch, p.last)
      BY <1>1, <1>2, <1>3, <1>5, <1>6, <2>1
    <3>2. TimelineAt(t, m, Continues(d, p)) /\ Continues(d, p).range = d.range
      BY <1>1, <1>2, <1>6, <3>1, ContinuesSynced DEF Grows
    <3> QED
      BY <2>1, <3>2
  <2>2. CASE ~mine
    BY <1>1, <2>2
  <2> QED
    BY <2>1, <2>2
<1> HIDE DEF e
<1>8. ASSUME p.request = LatestRows
      PROVE  Rest(t, m.down, 0, e.range.epoch, e.range.to)
  <2>1. p.dir = "tail" /\ ~IsBefore(p.request)
    BY <1>6, <1>8 DEF LatestRows, IsBefore
  <2>2. c.member = "acknowledged"
    BY <1>2, <1>3, <2>1 DEF MemberOK
  <2>3. e.range.epoch = p.epoch /\ e.range.to = p.last
    BY <1>1, <1>7, <2>1 DEF Grows
  <2> QED
    BY <1>2, <1>3, <2>2, <2>3
<1>9. TimelineAt(t, m, Cleared(e, p))
  BY <1>7, <1>8, ClearedIs
<1> QED
  BY <1>4, <1>9 DEF m, p, d
-----------------------------------------------------------------------------
(* The first page that a chat receives *)
FirstRow == [epoch |-> 1, from |-> 1, to |-> 1]
\* A row that a page tells of
KnownRow(r, p) ==
    r = <<r[1], r[2]>> /\ r[1] \in Nat \ {0} /\ r[2] \in Nat \ {0} /\ UpTo(r[1], r[2], p.epoch, p.last)

\* A chat that is not synchronized when a page comes
FirstPage(l, c, p) ==
    /\ c.member = "acknowledged" /\ l.subscribed /\ c.owed = NoRequest /\ c.scroll = NoRequest
    /\ ~c.older /\ c.catchUp.status = "running" /\ c.catchUp.request = ResumeRequest(c)
    /\ c.catchUp.fallback = IsAfter(c.catchUp.request) /\ c.init # "none"
    /\ \/ c.range = NoRange /\ ResumeRequest(c) = LatestRows
       \/ c.range = FirstRow /\ ResumeRequest(c) = RowsAfter(1, 1) /\ <<1, 1>> \in c.rows
    /\ \A r \in c.rows : r[1] = 1
    /\ \A r \in InFlight(l) : r = LatestRows \/ r = ResumeRequest(c)
    /\ p.request \in InFlight(l)
    /\ IF c.catchUp.forcing THEN c.catchUp.at = LatestRows /\ c.forced /\ c.range = FirstRow
       ELSE c.catchUp.at = ResumeRequest(c)
    /\ c.forced => c.catchUp.forcing
    /\ \A r \in c.rows \cup c.overlay : KnownRow(r, p)

\* The first pages of a chat that is not synchronized
LEMMA FirstPageIs ==
    ASSUME NEW t, NEW l, NEW c, TimelineAt(t, l, c), l.down # <<>>, ~c.synced, IsPage(l.down[1])
    PROVE  FirstPage(l, c, l.down[1])
<1> DEFINE p == l.down[1]
<1>1. MemberOK(t, l, c) /\ FreshOK(t, l, c) /\ c \in Chats /\ PagesOK(t, l, c)
  BY DEF TimelineAt
<1>2. p.request \in InFlight(l) /\ \A e, n : KnownOK(t, l, e, n) => UpTo(e, n, p.epoch, p.last)
  BY PageBehind
<1> HIDE DEF p
<1>3. /\ c.member = "acknowledged" /\ l.subscribed /\ c.owed = NoRequest /\ c.scroll = NoRequest
      /\ ~c.older
  BY <1>1, <1>2 DEF MemberOK, FreshOK
<1>4. c.catchUp.status = "running"
  BY <1>1, <1>3 DEF MemberOK, FreshOK
<1>5. /\ c.catchUp.request = ResumeRequest(c)
      /\ c.catchUp.fallback = IsAfter(c.catchUp.request) /\ c.init # "none"
      /\ \A r \in InFlight(l) : r = LatestRows \/ r = ResumeRequest(c)
      /\ IF c.catchUp.forcing THEN c.catchUp.at = LatestRows /\ c.forced /\ IsAfter(c.catchUp.request)
         ELSE c.catchUp.at = c.catchUp.request
      /\ c.forced => c.catchUp.forcing
  BY <1>1, <1>4 DEF FreshOK
<1>6. Span(1, 1, 1) = FirstRow /\ FirstRow # NoRange /\ FirstRow.epoch = 1 /\ FirstRow.to = 1
  BY DEF Span, FirstRow, NoRange
<1>7. /\ \/ c.range = NoRange /\ ResumeRequest(c) = LatestRows
         \/ c.range = FirstRow /\ ResumeRequest(c) = RowsAfter(1, 1) /\ <<1, 1>> \in c.rows
      /\ \A r \in c.rows : r[1] = 1
  BY <1>1, <1>6 DEF FreshOK, ResumeRequest
<1>8. ~IsAfter(LatestRows)
  BY DEF IsAfter, LatestRows
<1>9. ASSUME NEW r \in c.rows \cup c.overlay PROVE KnownRow(r, p)
  <2>1. r \in Nat \X Nat
    BY <1>1 DEF Chats, ChatRows
  <2>2. r = <<r[1], r[2]>> /\ r[1] # 0 /\ r[2] # 0 /\ KnownOK(t, l, r[1], r[2])
    BY <1>1 DEF FreshOK, EarlyOK
  <2> QED
    BY <1>2, <2>1, <2>2 DEF KnownRow
<1>10. c.catchUp.forcing => c.range = FirstRow
  BY <1>5, <1>7, <1>8
<1> QED
  BY <1>2, <1>3, <1>4, <1>5, <1>7, <1>9, <1>10 DEF FirstPage, p

\* What is stored of the page is what the daemon had
LEMMA FirstStored ==
    ASSUME NEW t, NEW l, NEW c, TimelineAt(t, l, c), l.down # <<>>, ~c.synced, IsPage(l.down[1]),
           NEW d \in Chats, RangeOK(d), KeepsCatchUp(c, d),
           d.range.epoch = l.down[1].epoch, d.range.to = l.down[1].last
    PROVE  Subscribed(t, Behind(l), d) /\ Stored(t, Behind(l), d)
<1> DEFINE p == l.down[1]
           m == Behind(l)
<1>1. FirstPage(l, c, p)
  BY FirstPageIs
<1>2. t \in Times /\ PagesOK(t, l, c) /\ l \in TimeLinks
  BY DEF TimelineAt
<1>3. /\ m \in TimeLinks /\ m.subscribed = l.subscribed /\ LineOK(t, m)
      /\ InFlight(m) \subseteq InFlight(l) /\ PagesOK(t, m, c)
  BY <1>2, BehindIs
<1>4. KnownOK(t, m, p.epoch, p.last)
  BY PageBehind
<1> HIDE DEF p, m
<1>5. Subscribed(t, m, d)
  <2>1. PagesOK(t, m, d)
    BY <1>3 DEF PagesOK, KeepsCatchUp
  <2> QED
    BY <1>1, <1>2, <1>3, <2>1 DEF Subscribed, FirstPage, KeepsCatchUp
<1>6. ASSUME NEW r \in InFlight(m), IsAfter(r) PROVE UpTo(r.epoch, r.seq, p.epoch, p.last)
  <2>1. ~IsAfter(LatestRows)
    BY DEF IsAfter, LatestRows
  <2>2. r = ResumeRequest(c) /\ ResumeRequest(c) # LatestRows
    BY <1>1, <1>3, <1>6, <2>1 DEF FirstPage
  <2>3. r = RowsAfter(1, 1) /\ <<1, 1>> \in c.rows
    BY <1>1, <2>2 DEF FirstPage
  <2>4. KnownRow(<<1, 1>>, p)
    BY <1>1, <2>3 DEF FirstPage
  <2>5. r.epoch = 1 /\ r.seq = 1
    BY <2>3 DEF RowsAfter
  <2> QED
    BY <2>4, <2>5 DEF KnownRow
<1>7. Stored(t, m, d)
  BY <1>4, <1>6 DEF Stored, AfterUpTo, p
<1> QED
  BY <1>5, <1>7 DEF m
Unforced(c, p) == [c EXCEPT !.forced = @ /\ p.dir # "tail"]

\* The page that synchronizes a chat
LEMMA FirstInstalled ==
    ASSUME NEW c \in Chats, NEW p \in TimePages, p.dir = "tail" \/ (p.dir = "after" /\ ~p.newer),
           NEW r \in Chats, OtherRows(c, r), r.rows \cup r.overlay = Rows(r.range),
           r.range.epoch # 0, r.range.from # 0, r.range.from <= r.range.to, Wide(r.range),
           r.range.from = 1 \/ r.older,
           NEW d, d = Unforced(Installed(c, p, r), p)
    PROVE  /\ d \in Chats /\ d.synced /\ KeepsCatchUp(c, d) /\ d.init = c.init /\ RangeOK(d)
           /\ d.range = r.range /\ d.newer = p.newer
<1> DEFINE s == Installed(c, p, r)
           x == s.forced /\ p.dir # "tail"
<1>1. /\ s \in Chats /\ s.synced /\ KeepsCatchUp(c, s) /\ s.init = c.init
      /\ s.rows = r.rows \cup r.overlay /\ s.overlay = {} /\ s.range = r.range /\ s.older = r.older
      /\ s.newer = p.newer
  BY InstalledIs
<1>2. x \in BOOLEAN /\ d = [s EXCEPT !.forced = x]
  BY DEF Unforced
<1> HIDE DEF s, x
<1>3. /\ d \in Chats /\ d.synced = s.synced /\ d.init = s.init /\ d.rows = s.rows
      /\ d.overlay = s.overlay /\ d.range = s.range /\ d.older = s.older /\ d.newer = s.newer
      /\ d.member = s.member /\ d.catchUp = s.catchUp /\ d.owed = s.owed /\ d.scroll = s.scroll
      /\ d.replacing = s.replacing /\ d.error = s.error
  BY <1>1, <1>2 DEF Chats
<1>4. KeepsCatchUp(c, d)
  BY <1>1, <1>3 DEF KeepsCatchUp
<1>5. RangeOK(d)
  BY <1>1, <1>3 DEF RangeOK
<1> QED
  BY <1>1, <1>3, <1>4, <1>5

\* The end of the first fetch touches no rows
LEMMA Initialized ==
    ASSUME NEW c \in Chats, NEW p, NEW d, d = [c EXCEPT !.init = IF Resolves(c, p) THEN "none" ELSE @]
    PROVE  d \in Chats /\ KeepsStore(c, d) /\ KeepsCatchUp(c, d) /\ d.init \in {"none", c.init}
<1> DEFINE x == IF Resolves(c, p) THEN "none" ELSE c.init
<1>1. d = [c EXCEPT !.init = x] /\ x \in {"none", c.init} /\ x \in {"none", "tail", "after", "before"}
  BY DEF Chats
<1> HIDE DEF x
<1> QED
  BY <1>1 DEF Chats, KeepsStore, KeepsCatchUp

\* The first page was all that the catch-up waited for
LEMMA FirstCompletes ==
    ASSUME NEW t, NEW l, NEW c, TimelineAt(t, l, c), l.down # <<>>, ~c.synced, IsPage(l.down[1]),
           c.catchUp.at = l.down[1].request, c.catchUp.forcing \/ ~l.down[1].newer,
           NEW d \in Chats, d.synced, KeepsCatchUp(c, d), RangeOK(d), ~d.newer,
           d.range.epoch = l.down[1].epoch, d.range.to = l.down[1].last
    PROVE  TimelineAt(t, Behind(l), AfterPage(c, d, l.down[1]))
<1> DEFINE p == l.down[1]
           m == Behind(l)
<1>1. FirstPage(l, c, p)
  BY FirstPageIs
<1>2. Subscribed(t, m, d) /\ Stored(t, m, d)
  BY FirstStored
<1>3. c.catchUp.status = "running"
  BY <1>1 DEF FirstPage
<1>4. NoAfter(m)
  BY <1>3, NothingBehind
<1>5. c.member = "acknowledged" /\ c.owed = NoRequest
  BY <1>1 DEF FirstPage
<1>6. m.down = Tail(l.down)
  <2>1. PagesOK(t, l, c)
    BY DEF TimelineAt
  <2> QED
    BY <2>1, BehindIs
<1>7. Rest(t, m.down, 0, p.epoch, p.last)
  BY <1>5, <1>6, PageBehind
<1> HIDE DEF m, p
<1>8. Rest(t, m.down, 0, d.range.epoch, d.range.to)
  BY <1>7 DEF p
<1>9. d.owed = NoRequest /\ d.member = "acknowledged" /\ d.catchUp = c.catchUp
  BY <1>5 DEF KeepsCatchUp
<1>10. TimelineAt(t, m, Completed(d)) /\ Completed(d).range = d.range
  BY <1>2, <1>4, <1>8, <1>9, Completes
<1>11. Continues(d, p) = Completed(d)
  BY <1>9, ContinuesIs DEF p
<1>12. AfterPage(c, d, p) = Cleared(Completed(d), p)
  BY <1>3, <1>9, <1>11, AfterPageIs DEF p
<1>13. TimelineAt(t, m, Cleared(Completed(d), p))
  BY <1>8, <1>10, ClearedIs
<1> QED
  BY <1>12, <1>13 DEF m, p
\* The rows of a chat that is not synchronized, of the page's epoch, are up to its last row
LEMMA FirstOverlay ==
    ASSUME NEW l, NEW c, NEW p \in TimePages, FirstPage(l, c, p)
    PROVE  {r \in c.overlay : r[1] = p.epoch /\ r[2] > p.last} = {}
<1> SUFFICES ASSUME NEW r \in c.overlay, r[1] = p.epoch, r[2] > p.last PROVE FALSE
  OBVIOUS
<1>1. r[2] \in Nat /\ UpTo(r[1], r[2], p.epoch, p.last) /\ r[1] \in Nat
  BY DEF FirstPage, KnownRow
<1>2. p.last \in Nat
  BY DEF TimePages
<1> QED
  BY <1>1, <1>2 DEF UpTo

\* A page that takes the place of all: after a rewind, or the tail that a catch-up fell back to
LEMMA FirstReset ==
    ASSUME NEW t, NEW l, NEW c, TimelineAt(t, l, c), l.down # <<>>, ~c.synced, IsPage(l.down[1]),
           AsForced(c, l.down[1]).reset
    PROVE  TimelineAt(t, Behind(l), AfterPage(c, Reconciled(c, l.down[1]), l.down[1]))
<1> DEFINE q == l.down[1]
           p == AsForced(c, q)
           r == PageAlone(c, p)
           s == Taken(c, p)
           d == Reconciled(c, q)
<1>1. c \in Chats /\ CatchUpOK(l, c) /\ FirstPage(l, c, q) /\ q \in TimePages /\ PageIs(q)
  BY FirstPageIs, PageBehind DEF TimelineAt
<1> HIDE DEF q
<1>2. /\ p \in TimePages /\ PageTells(p)
      /\ p.dir = q.dir /\ p.request = q.request /\ p.epoch = q.epoch /\ p.last = q.last
      /\ p.from = q.from /\ p.to = q.to /\ p.older = q.older /\ p.newer = q.newer
      /\ p.reset <=> q.reset \/ (q.dir = "tail" /\ c.forced)
  BY <1>1, AsForcedIs
<1>3. p.reset
  BY DEF q
<1>4. d = [Followed(c, p, s) EXCEPT !.init = IF Resolves(c, p) THEN "none" ELSE @]
  BY ReconciledIs
<1> HIDE DEF p
<1>5. /\ Replaces(c, p) /\ ~Discards(c, p) /\ ~Bootstraps(c, p)
  BY <1>3 DEF Replaces, Discards, Bootstraps, OfKnownRange
<1>6. p.to = p.last /\ ~p.newer /\ Wide(p) /\ p.to + 1 <= p.from + PageSize /\ p.dir = p.request.dir
  BY <1>2, <1>3 DEF PageTells
<1>7. p.last # 0 /\ p.epoch # 0 /\ p.from # 0 /\ p.from <= p.to /\ (p.older <=> p.from > 1)
  BY <1>2, <1>6 DEF PageTells
<1>8. Filled(p)
  BY <1>2, <1>6, <1>7 DEF Filled
<1>9. /\ r \in Chats /\ OtherRows(c, r) /\ r.rows = Rows(p) /\ Rows(p) = Rows(r.range)
      /\ r.overlay = {x \in c.overlay : x[1] = p.epoch /\ x[2] > p.to}
      /\ r.range = [epoch |-> p.epoch, from |-> p.from, to |-> p.to] /\ r.older = p.older
  BY <1>1, <1>6, <1>8, PageAloneIs
<1>10. s = Unforced(Installed(c, p, r), p)
  BY <1>5 DEF Taken, Settled, Result, Unforced
<1> HIDE DEF r, s, d
<1>11. r.overlay = {}
  BY <1>1, <1>2, <1>6, <1>9, FirstOverlay
<1>12. /\ r.range.epoch = p.epoch /\ r.range.from = p.from /\ r.range.to = p.to
       /\ r.range.from = 1 \/ r.older
       /\ Wide(r.range)
  <2>1. r.range.epoch = p.epoch /\ r.range.from = p.from /\ r.range.to = p.to
    BY <1>9
  <2>2. Wide(r.range)
    BY <1>6, <2>1 DEF Wide
  <2>3. p.from \in Nat
    BY <1>2 DEF TimePages
  <2>4. r.range.from = 1 \/ r.older
    BY <1>7, <1>9, <2>1, <2>3
  <2> QED
    BY <2>1, <2>2, <2>4
<1>13. p.dir \in {"tail", "after"} /\ (p.dir = "tail" => q.request = LatestRows)
  <2>1. q.request = LatestRows \/ q.request = ResumeRequest(c)
    BY <1>1 DEF FirstPage
  <2>2. q.request = LatestRows \/ q.request = RowsAfter(1, 1)
    BY <1>1, <2>1 DEF FirstPage
  <2> QED
    BY <1>2, <1>6, <2>2 DEF LatestRows, RowsAfter
<1>14. Wide(r.range) /\ (r.range.from = 1 \/ r.older)
  <2>1. Wide(r.range)
    BY <1>6, <1>12 DEF Wide
  <2>2. p.from \in Nat
    BY <1>2 DEF TimePages
  <2> QED
    BY <1>7, <1>9, <1>12, <2>1, <2>2
<1>15. /\ s \in Chats /\ s.synced /\ KeepsCatchUp(c, s) /\ RangeOK(s)
       /\ s.range = r.range /\ s.newer = p.newer
  <2>1. r.rows \cup r.overlay = Rows(r.range)
    BY <1>9, <1>11
  <2>2. r.range.epoch # 0 /\ r.range.from # 0 /\ r.range.from <= r.range.to
    BY <1>7, <1>12
  <2> QED
    <3>1. p.dir = "tail" \/ (p.dir = "after" /\ ~p.newer)
      BY <1>6, <1>13
    <3>2. r \in Chats /\ OtherRows(c, r)
      BY <1>9
    <3> QED
      BY <1>1, <1>2, <1>10, <1>14, <2>1, <2>2, <3>1, <3>2, FirstInstalled
<1>16. Followed(c, p, s) = s
  BY <1>5 DEF Followed
<1>17. d \in Chats /\ KeepsStore(s, d) /\ KeepsCatchUp(s, d)
  <2>1. d = [s EXCEPT !.init = IF Resolves(c, p) THEN "none" ELSE @]
    BY <1>4, <1>16
  <2> DEFINE x == IF Resolves(c, p) THEN "none" ELSE s.init
  <2>2. d = [s EXCEPT !.init = x] /\ x \in {"none", "tail", "after", "before"}
    BY <1>15, <2>1 DEF Chats
  <2> HIDE DEF x
  <2> QED
    BY <1>15, <2>2 DEF Chats, KeepsStore, KeepsCatchUp
<1>18. c.catchUp.at = q.request
  <2>1. CASE p.dir = "tail"
    <3>1. q.request = LatestRows
      BY <1>13, <2>1
    <3>2. ~q.reset
      BY <1>1, <1>2, <2>1 DEF PageIs
    <3>3. c.forced
      BY <1>2, <1>3, <3>2
    <3> QED
      BY <1>1, <3>1, <3>3 DEF FirstPage
  <2>2. CASE p.dir = "after"
    <3>1. IsAfter(q.request) /\ ~IsAfter(LatestRows)
      BY <1>2, <1>6, <2>2 DEF IsAfter, LatestRows
    <3>2. q.request = ResumeRequest(c) /\ q.request \in InFlight(l)
      BY <1>1, <3>1 DEF FirstPage
    <3>3. c.catchUp.at # LatestRows
      BY <1>1, <3>1, <3>2 DEF FirstPage, CatchUpOK, Bound, NoAfter
    <3> QED
      BY <1>1, <3>2, <3>3 DEF FirstPage
  <2> QED
    BY <1>13, <2>1, <2>2
<1>19. KeepsCatchUp(c, d) /\ d.synced /\ RangeOK(d) /\ ~d.newer
       /\ d.range.epoch = q.epoch /\ d.range.to = q.last
  BY <1>2, <1>6, <1>12, <1>15, <1>17 DEF KeepsStore, KeepsCatchUp, RangeOK
<1>20. ~q.newer
  BY <1>2, <1>6
<1> QED
  BY <1>17, <1>18, <1>19, <1>20, FirstCompletes DEF q, d
\* A page of the rows behind the only row that the cache knew
SecondRows(c, p) ==
    /\ p.request = RowsAfter(1, 1) /\ p.dir = "after" /\ ~p.reset /\ p.epoch = 1
    /\ c.range = FirstRow /\ ResumeRequest(c) = RowsAfter(1, 1) /\ <<1, 1>> \in c.rows
    /\ p.last \in Nat \ {0}
    /\ \/ p.to = 0 /\ ~p.newer /\ p.last = 1
       \/ /\ p.to \in Nat /\ p.from = 2 /\ p.from <= p.to /\ p.to <= p.last
          /\ ~p.newer => p.to = p.last

\* The page after the row of the cache
LEMMA SecondRowsIs ==
    ASSUME NEW l, NEW c, NEW p \in TimePages, PageTells(p), NEW q, FirstPage(l, c, q),
           p.request = q.request, p.request # LatestRows, ~p.reset
    PROVE  SecondRows(c, p)
<1>1. p.request = RowsAfter(1, 1) /\ ResumeRequest(c) = RowsAfter(1, 1) /\ ResumeRequest(c) # LatestRows
  BY DEF FirstPage
<1>2. c.range = FirstRow /\ <<1, 1>> \in c.rows
  BY <1>1 DEF FirstPage
<1>3. p.request.dir = "after" /\ p.request.epoch = 1 /\ p.request.seq = 1
  BY <1>1 DEF RowsAfter
<1>4. p.dir = "after" /\ p.epoch = 1
  BY <1>3 DEF PageTells
<1>5. p.last \in Nat \ {0} /\ p.to \in Nat /\ p.from \in Nat
  BY DEF PageTells, TimePages
<1>6. p.to = 0 \/ (p.from # 0 /\ p.from <= p.to)
  BY DEF PageTells
<1>7. /\ p.to <= p.last
      /\ p.to # 0 => p.from = p.request.seq + 1
      /\ ~p.newer => p.to = p.last \/ (p.to = 0 /\ p.request.seq >= p.last)
      /\ p.newer => p.to # 0
  BY <1>4 DEF PageTells
<1>8. CASE p.to = 0
  <2>1. ~p.newer /\ 1 >= p.last
    BY <1>3, <1>5, <1>7, <1>8
  <2>2. p.last = 1
    BY <1>5, <2>1
  <2> QED
    BY <1>1, <1>2, <1>4, <1>5, <1>8, <2>1, <2>2 DEF SecondRows
<1>9. CASE p.to # 0
  <2>1. p.from = 2 /\ p.from <= p.to /\ p.to <= p.last
    BY <1>3, <1>6, <1>7, <1>9
  <2>2. ~p.newer => p.to = p.last
    BY <1>7, <1>9
  <2> QED
    BY <1>1, <1>2, <1>4, <1>5, <2>1, <2>2 DEF SecondRows
<1> QED
  BY <1>8, <1>9

\* It continues that row
LEMMA SecondResult ==
    ASSUME NEW c \in Chats, NEW p \in TimePages, SecondRows(c, p)
    PROVE  /\ ~Replaces(c, p) /\ ~Discards(c, p) /\ ~Bootstraps(c, p)
           /\ p.to = 0 => Result(c, p) = c
           /\ p.to # 0 => Result(c, p) = Longer(c, p)
<1>1. p.dir = "after" /\ ~p.reset /\ p.epoch = 1 /\ c.range = FirstRow
  BY DEF SecondRows
<1>2. ~Replaces(c, p) /\ ~Discards(c, p) /\ ~Bootstraps(c, p)
  BY <1>1 DEF Replaces, Discards, Bootstraps, OfKnownRange
<1>3. Result(c, p) = Extended(c, p)
  BY <1>2 DEF Result
<1>4. CASE p.to = 0
  BY <1>2, <1>3, <1>4 DEF Extended
<1>5. CASE p.to # 0
  <2>1. FirstRow # NoRange /\ FirstRow.epoch = 1 /\ FirstRow.to = 1
    BY DEF FirstRow, NoRange
  <2>2. p.from = 2 /\ ~(p.to <= 1) /\ p.from <= 1 + 1
    BY <1>5 DEF SecondRows
  <2>3. Extended(c, p) = Longer(c, p)
    BY <1>1, <1>5, <2>1, <2>2 DEF Extended, Longer
  <2> QED
    BY <1>2, <1>3, <1>5, <2>3
<1> QED
  BY <1>4, <1>5

\* Rows added to the row of the cache
LEMMA LongerFirst ==
    ASSUME NEW c \in Chats, NEW p \in TimePages, c.range = FirstRow
    PROVE  /\ Longer(c, p) \in Chats /\ OtherRows(c, Longer(c, p))
           /\ Longer(c, p).rows = c.rows \cup Rows(p) /\ Longer(c, p).overlay = c.overlay
           /\ Longer(c, p).range = [epoch |-> 1, from |-> 1, to |-> p.to]
           /\ Longer(c, p).older = c.older
<1> DEFINE x == c.rows \cup Rows(p)
           y == [c.range EXCEPT !.to = p.to]
<1>1. Rows(p) \in ChatRows
  BY DEF Rows, TimePages, ChatRows
<1>2. x \in ChatRows
  BY <1>1 DEF Chats, ChatRows
<1>3. y \in Ranges /\ y = [epoch |-> 1, from |-> 1, to |-> p.to]
  BY DEF Chats, Ranges, TimePages, FirstRow
<1>4. Longer(c, p) = [c EXCEPT !.rows = x, !.range = y]
  BY DEF Longer, Chats
<1> HIDE DEF x, y
<1>5. /\ Longer(c, p) \in Chats /\ OtherRows(c, Longer(c, p))
      /\ Longer(c, p).rows = x /\ Longer(c, p).overlay = c.overlay
      /\ Longer(c, p).range = y /\ Longer(c, p).older = c.older
  BY <1>2, <1>3, <1>4 DEF Chats, OtherRows, KeepsCatchUp
<1> QED
  BY <1>3, <1>5 DEF x

\* Whatever the cache and the rows that came tell is among the rows up to the last
LEMMA SecondAmong ==
    ASSUME NEW l, NEW c, NEW p \in TimePages, FirstPage(l, c, p), p.epoch = 1,
           NEW r \in c.rows \cup c.overlay
    PROVE  r = <<1, r[2]>> /\ r[2] \in 1..p.last
<1>1. r = <<r[1], r[2]>> /\ r[1] \in Nat \ {0} /\ r[2] \in Nat \ {0} /\ UpTo(r[1], r[2], 1, p.last)
  BY DEF FirstPage, KnownRow
<1>2. p.last \in Nat
  BY DEF TimePages
<1> DEFINE a == r[1]
           b == r[2]
<1>3. a \in Nat \ {0} /\ b \in Nat \ {0} /\ (a < 1 \/ (a = 1 /\ b <= p.last))
  BY <1>1 DEF UpTo
<1> HIDE DEF a, b
<1>4. a = 1 /\ b \in 1..p.last
  BY <1>2, <1>3
<1> QED
  BY <1>1, <1>4 DEF a, b
\* The rows of the cache, those that came and those of the page are all up to the last
LEMMA SecondShown ==
    ASSUME NEW l, NEW c \in Chats, NEW q \in TimePages, FirstPage(l, c, q), NEW p \in TimePages,
           SecondRows(c, p), ~p.newer, q.epoch = 1, q.last = p.last,
           NEW r, r = Result(c, p)
    PROVE  /\ r \in Chats /\ OtherRows(c, r) /\ r.rows \cup r.overlay = Rows(r.range)
           /\ r.range = [epoch |-> 1, from |-> 1, to |-> p.last]
<1>1. c.range = FirstRow /\ <<1, 1>> \in c.rows /\ p.epoch = 1 /\ p.last \in Nat \ {0}
  BY DEF SecondRows
<1> DEFINE all == [epoch |-> 1, from |-> 1, to |-> p.last]
<1>2. Rows(all) = {<<1, k>> : k \in 1..p.last}
  BY <1>1 DEF Rows
<1>3. all.to = p.last
  OBVIOUS
<1> HIDE DEF all
<1>4. ASSUME NEW x \in c.rows \cup c.overlay PROVE x \in Rows(all)
  BY <1>2, SecondAmong
<1>5. CASE p.to = 0
  <2>1. r = c /\ p.last = 1
    BY <1>5, SecondResult DEF SecondRows
  <2>2. r.range = all
    BY <1>1, <2>1 DEF FirstRow, all
  <2>3. \A x \in Rows(all) : x = <<1, 1>>
    BY <1>2, <2>1
  <2>4. \A x : x \in r.rows \cup r.overlay <=> x \in Rows(all)
    BY <1>1, <1>4, <2>1, <2>3
  <2>5. OtherRows(c, r)
    BY <2>1 DEF OtherRows, KeepsCatchUp
  <2> QED
    BY <2>1, <2>2, <2>4, <2>5 DEF all
<1>6. CASE p.to # 0
  <2>1. r = Longer(c, p) /\ p.to = p.last /\ p.from = 2
    BY <1>6, SecondResult DEF SecondRows
  <2>2. /\ r \in Chats /\ OtherRows(c, r) /\ r.rows = c.rows \cup Rows(p) /\ r.overlay = c.overlay
        /\ r.range = all
    BY <1>1, <2>1, LongerFirst DEF all
  <2>3. Rows(p) = {<<1, k>> : k \in (2..p.last) \ {0}}
    BY <1>1, <2>1 DEF Rows
  <2>4. ASSUME NEW x \in Rows(p) PROVE x \in Rows(all)
    <3>1. PICK k \in 2..p.last : x = <<1, k>>
      BY <2>3
    <3>2. k \in 1..p.last
      BY <1>1, <3>1
    <3> QED
      BY <1>2, <3>1, <3>2
  <2>5. ASSUME NEW x \in Rows(all) PROVE x \in c.rows \/ x \in Rows(p)
    <3>1. PICK k \in 1..p.last : x = <<1, k>>
      BY <1>2
    <3>2. k = 1 \/ k \in (2..p.last) \ {0}
      BY <1>1, <3>1
    <3> QED
      BY <1>1, <2>3, <3>1, <3>2
  <2>6. \A x : x \in r.rows \cup r.overlay <=> x \in Rows(all)
    BY <1>4, <2>2, <2>4, <2>5
  <2> QED
    BY <2>2, <2>6 DEF all
<1> QED
  BY <1>5, <1>6

\* All that came after the row of the cache
LEMMA FirstFull ==
    ASSUME NEW t, NEW l, NEW c, TimelineAt(t, l, c), l.down # <<>>, ~c.synced, IsPage(l.down[1]),
           l.down[1].request # LatestRows, ~AsForced(c, l.down[1]).reset, ~l.down[1].newer
    PROVE  TimelineAt(t, Behind(l), AfterPage(c, Reconciled(c, l.down[1]), l.down[1]))
<1> DEFINE q == l.down[1]
           p == AsForced(c, q)
           r == Result(c, p)
           s == Taken(c, p)
           d == Reconciled(c, q)
<1>1. c \in Chats /\ CatchUpOK(l, c) /\ FirstPage(l, c, q) /\ q \in TimePages /\ PageIs(q)
  BY FirstPageIs, PageBehind DEF TimelineAt
<1> HIDE DEF q
<1>2. /\ p \in TimePages /\ PageTells(p)
      /\ p.dir = q.dir /\ p.request = q.request /\ p.epoch = q.epoch /\ p.last = q.last
      /\ p.from = q.from /\ p.to = q.to /\ p.older = q.older /\ p.newer = q.newer
  BY <1>1, AsForcedIs
<1>3. ~p.reset /\ p.request # LatestRows /\ ~p.newer
  BY <1>2 DEF q
<1>4. d = [Followed(c, p, s) EXCEPT !.init = IF Resolves(c, p) THEN "none" ELSE @]
  BY ReconciledIs
<1> HIDE DEF p
<1>5. SecondRows(c, p)
  BY <1>1, <1>2, <1>3, SecondRowsIs
<1>6. /\ p.epoch = 1 /\ p.dir = "after" /\ p.last \in Nat \ {0} /\ c.range = FirstRow
      /\ p.request = RowsAfter(1, 1) /\ ResumeRequest(c) = RowsAfter(1, 1)
      /\ p.to # 0 => p.from = 2
  BY <1>5 DEF SecondRows
<1>7. ~Replaces(c, p) /\ ~Discards(c, p) /\ ~Bootstraps(c, p)
  BY <1>1, <1>2, <1>5, SecondResult
<1>8. /\ r \in Chats /\ OtherRows(c, r) /\ r.rows \cup r.overlay = Rows(r.range)
      /\ r.range = [epoch |-> 1, from |-> 1, to |-> p.last]
  BY <1>1, <1>2, <1>3, <1>5, <1>6, SecondShown
<1>9. s = Unforced(Installed(c, p, r), p)
  BY <1>7 DEF Taken, Settled, Unforced
<1>10. FirstRow.to = 1
  BY DEF FirstRow
<1>11. Followed(c, p, s) = s
  <2>1. p.to # 0 => ~(p.from > c.range.to + 1)
    BY <1>6, <1>10
  <2> QED
    BY <1>7, <2>1 DEF Followed
<1> HIDE DEF r, s, d
<1>12. /\ r.range.epoch = 1 /\ r.range.from = 1 /\ r.range.to = p.last /\ r.range.from <= r.range.to
       /\ Wide(r.range)
  BY <1>6, <1>8 DEF Wide
<1>13. /\ s \in Chats /\ s.synced /\ KeepsCatchUp(c, s) /\ RangeOK(s)
       /\ s.range = r.range /\ s.newer = p.newer
  <2>1. p.dir = "tail" \/ (p.dir = "after" /\ ~p.newer)
    BY <1>3, <1>6
  <2>2. r.range.epoch # 0 /\ r.range.from # 0
    BY <1>12
  <2> QED
    BY <1>1, <1>2, <1>8, <1>9, <1>12, <2>1, <2>2, FirstInstalled
<1>14. d \in Chats /\ KeepsStore(s, d) /\ KeepsCatchUp(s, d)
  <2>1. d = [s EXCEPT !.init = IF Resolves(c, p) THEN "none" ELSE @]
    BY <1>4, <1>11
  <2> DEFINE x == IF Resolves(c, p) THEN "none" ELSE s.init
  <2>2. d = [s EXCEPT !.init = x] /\ x \in {"none", "tail", "after", "before"}
    BY <1>13, <2>1 DEF Chats
  <2> HIDE DEF x
  <2> QED
    BY <1>13, <2>2 DEF Chats, KeepsStore, KeepsCatchUp
<1>15. c.catchUp.at = q.request /\ ~c.catchUp.forcing
  <2>1. IsAfter(q.request) /\ ~IsAfter(LatestRows)
    BY <1>2, <1>6 DEF IsAfter, LatestRows, RowsAfter
  <2>2. q.request = ResumeRequest(c) /\ q.request \in InFlight(l)
    BY <1>1, <1>2, <1>6 DEF FirstPage
  <2>3. c.catchUp.at # LatestRows
    BY <1>1, <2>1, <2>2 DEF FirstPage, CatchUpOK, Bound, NoAfter
  <2> QED
    BY <1>1, <2>2, <2>3 DEF FirstPage
<1>16. KeepsCatchUp(c, d) /\ d.synced /\ RangeOK(d) /\ ~d.newer
       /\ d.range.epoch = q.epoch /\ d.range.to = q.last
  BY <1>2, <1>3, <1>6, <1>12, <1>13, <1>14 DEF KeepsStore, KeepsCatchUp, RangeOK
<1>17. ~q.newer
  BY <1>2, <1>3
<1> QED
  BY <1>14, <1>15, <1>16, <1>17, FirstCompletes DEF q, d
\* A page that is not the last does not synchronize the chat
PartInstalled(c, p, r) == [r EXCEPT !.synced = FALSE, !.newer = TRUE, !.range = c.range]

\* A page that is not the last does not synchronize the chat
LEMMA InstalledPart ==
    ASSUME NEW c \in Chats, ~c.synced, NEW p \in TimePages, p.dir = "after", p.newer,
           NEW r \in Chats, OtherRows(c, r),
           NEW d, d = Unforced(Installed(c, p, r), p)
    PROVE  /\ d \in Chats /\ ~d.synced /\ KeepsCatchUp(c, d) /\ d.init = c.init /\ d.forced = c.forced
           /\ d.rows = r.rows /\ d.overlay = r.overlay /\ d.range = c.range /\ d.older = r.older
<1> DEFINE s == PartInstalled(c, p, r)
           x == s.forced /\ p.dir # "tail"
<1>1. /\ (c.synced \/ (p.dir # "before" /\ (p.dir = "tail" \/ ~p.newer))) = FALSE
      /\ (IF p.dir = "before" THEN c.synced /\ c.newer ELSE p.newer) = TRUE
  BY DEF Chats, TimePages
<1>2. Installed(c, p, r) = s
  <2>1. Installed(c, p, r) = [[r EXCEPT !.synced = FALSE, !.newer = TRUE, !.rows = @, !.overlay = @]
                                EXCEPT !.range = c.range]
    BY <1>1 DEF Installed
  <2> QED
    BY <2>1 DEF PartInstalled, Chats
<1>3. /\ s \in Chats /\ ~s.synced /\ KeepsCatchUp(r, s) /\ s.init = r.init /\ s.forced = r.forced
      /\ s.rows = r.rows /\ s.overlay = r.overlay /\ s.range = c.range /\ s.older = r.older
  BY DEF PartInstalled, Chats, KeepsCatchUp
<1> HIDE DEF s
<1>4. x = s.forced /\ x \in BOOLEAN
  BY <1>3 DEF Chats
<1>5. d = [s EXCEPT !.forced = x]
  BY <1>2 DEF Unforced
<1> HIDE DEF x
<1>6. /\ d \in Chats /\ ~d.synced /\ KeepsCatchUp(s, d) /\ d.init = s.init /\ d.forced = s.forced
      /\ d.rows = s.rows /\ d.overlay = s.overlay /\ d.range = s.range /\ d.older = s.older
  BY <1>3, <1>4, <1>5 DEF Chats, KeepsCatchUp
<1>7. KeepsCatchUp(c, d) /\ d.init = c.init /\ d.forced = c.forced
  BY <1>3, <1>6 DEF KeepsCatchUp, OtherRows
<1> QED
  BY <1>3, <1>6, <1>7

\* The chat waits for the latest tail, which then takes the place of all
LEMMA FirstWaits ==
    ASSUME NEW t, NEW m, NEW c, NEW d \in Chats, t \in Times, m \in TimeLinks, LineOK(t, m),
           PagesOK(t, m, c), m.subscribed, m.up, NoAfter(m),
           d.member = "acknowledged", c.member = "acknowledged", d.owed = NoRequest, d.scroll = NoRequest,
           ~d.synced, ~d.older, d.range = FirstRow, <<1, 1>> \in d.rows, \A r \in d.rows : r[1] = 1,
           \A r \in d.rows \cup d.overlay : EarlyOK(t, m, r),
           \A r \in InFlight(m) : r = LatestRows \/ r = RowsAfter(1, 1),
           d.catchUp.status = "running", d.catchUp.request = RowsAfter(1, 1), d.catchUp.fallback,
           d.catchUp.forcing, d.catchUp.at = LatestRows, d.forced, d.init # "none"
    PROVE  TimelineAt(t, m, d)
<1>1. Span(1, 1, 1) = FirstRow /\ FirstRow # NoRange /\ FirstRow.epoch = 1 /\ FirstRow.to = 1
  BY DEF Span, FirstRow, NoRange
<1>2. ResumeRequest(d) = RowsAfter(1, 1)
  BY <1>1 DEF ResumeRequest
<1>3. IsAfter(RowsAfter(1, 1)) /\ ~IsAfter(LatestRows) /\ ~IsBefore(LatestRows) /\ RequestOK(LatestRows)
  BY DEF IsAfter, IsBefore, RowsAfter, LatestRows, RequestOK
<1>4. MemberOK(t, m, d)
  BY DEF MemberOK
<1>5. PagesOK(t, m, d)
  BY DEF PagesOK
<1>6. CatchUpOK(m, d)
  BY <1>3 DEF CatchUpOK, Bound
<1>7. CompleteOK(t, m, d)
  BY DEF CompleteOK
<1>8. d.catchUp.fallback = TRUE
  BY DEF Chats, CatchUps
<1>9. FreshOK(t, m, d)
  <2>1. \/ d.range = NoRange /\ d.rows = {}
        \/ d.range = Span(1, 1, 1) /\ <<1, 1>> \in d.rows /\ \A r \in d.rows : r[1] = 1
    BY <1>1
  <2>2. d.catchUp.fallback = IsAfter(d.catchUp.request)
    BY <1>3, <1>8
  <2> QED
    BY <1>2, <1>3, <2>1, <2>2 DEF FreshOK
<1> QED
  BY <1>4, <1>5, <1>6, <1>7, <1>9 DEF TimelineAt

\* The rows of such a page are told again by what comes
LEMMA EarlyInPage ==
    ASSUME NEW t \in Times, NEW m \in TimeLinks, NEW p \in TimePages, p.epoch = 1, p.last \in Nat \ {0},
           p.to <= p.last, KnownOK(t, m, 1, p.last), NEW r \in Rows(p)
    PROVE  r[1] = 1 /\ EarlyOK(t, m, r)
<1>1. PICK k \in (p.from..p.to) \ {0} : r = <<1, k>>
  BY DEF Rows
<1>2. k \in Nat \ {0} /\ k <= p.last
  <2>1. p.from \in Nat /\ p.to \in Nat
    BY DEF TimePages
  <2> QED
    BY <1>1, <2>1
<1>3. UpTo(1, k, 1, p.last)
  BY <1>2 DEF UpTo
<1>4. KnownOK(t, m, 1, k)
  BY <1>2, <1>3, KnownDown
<1>5. r[1] = 1 /\ r[2] = k
  BY <1>1
<1> QED
  BY <1>1, <1>2, <1>4, <1>5 DEF EarlyOK

\* Not all that came after the row of the cache: the tail is fetched
LEMMA FirstPart ==
    ASSUME NEW t, NEW l, NEW c, TimelineAt(t, l, c), l.down # <<>>, ~c.synced, IsPage(l.down[1]),
           l.down[1].request # LatestRows, ~AsForced(c, l.down[1]).reset, l.down[1].newer
    PROVE  TimelineAt(t, Behind(l), AfterPage(c, Reconciled(c, l.down[1]), l.down[1]))
<1> DEFINE q == l.down[1]
           m == Behind(l)
           p == AsForced(c, q)
           r == Result(c, p)
           s == Taken(c, p)
           d == Reconciled(c, q)
           e == FallenBack(d)
<1>1. /\ c \in Chats /\ CatchUpOK(l, c) /\ FirstPage(l, c, q) /\ q \in TimePages /\ PageIs(q)
      /\ t \in Times /\ l \in TimeLinks /\ PagesOK(t, l, c) /\ FreshOK(t, l, c)
      /\ KnownOK(t, m, q.epoch, q.last)
  BY FirstPageIs, PageBehind DEF TimelineAt
<1>2. /\ m \in TimeLinks /\ m.up /\ m.subscribed = l.subscribed /\ LineOK(t, m)
      /\ InFlight(m) \subseteq InFlight(l) /\ PagesOK(t, m, c)
      /\ \A x, n : KnownOK(t, l, x, n) => KnownOK(t, m, x, n)
  BY <1>1, BehindIs
<1>3. c.catchUp.status = "running" /\ c.catchUp.at = q.request => NoAfter(m)
  BY NothingBehind
<1> HIDE DEF q, m
<1>4. /\ p \in TimePages /\ PageTells(p)
      /\ p.dir = q.dir /\ p.request = q.request /\ p.epoch = q.epoch /\ p.last = q.last
      /\ p.from = q.from /\ p.to = q.to /\ p.older = q.older /\ p.newer = q.newer
  BY <1>1, AsForcedIs
<1>5. ~p.reset /\ p.request # LatestRows /\ p.newer
  BY <1>4 DEF q
<1>6. d = [Followed(c, p, s) EXCEPT !.init = IF Resolves(c, p) THEN "none" ELSE @]
  BY ReconciledIs
<1> HIDE DEF p
<1>7. SecondRows(c, p)
  BY <1>1, <1>4, <1>5, SecondRowsIs
<1>8. /\ p.epoch = 1 /\ p.dir = "after" /\ p.last \in Nat \ {0} /\ c.range = FirstRow
      /\ p.request = RowsAfter(1, 1) /\ ResumeRequest(c) = RowsAfter(1, 1)
      /\ p.to # 0 /\ p.from = 2 /\ p.to <= p.last /\ <<1, 1>> \in c.rows
  BY <1>5, <1>7 DEF SecondRows
<1>9. ~Replaces(c, p) /\ ~Discards(c, p) /\ ~Bootstraps(c, p) /\ r = Longer(c, p)
  BY <1>1, <1>4, <1>7, <1>8, SecondResult
<1>10. s = Unforced(Installed(c, p, r), p)
  BY <1>9 DEF Taken, Settled, Unforced
<1> HIDE DEF r
<1>11. /\ r \in Chats /\ OtherRows(c, r) /\ r.rows = c.rows \cup Rows(p) /\ r.overlay = c.overlay
       /\ r.older = c.older
  BY <1>1, <1>4, <1>8, <1>9, LongerFirst
<1>12. FirstRow.to = 1
  BY DEF FirstRow
<1>13. Followed(c, p, s) = s
  <2>1. ~(p.from > c.range.to + 1)
    BY <1>8, <1>12
  <2> QED
    BY <1>9, <2>1 DEF Followed
<1> HIDE DEF s, d
<1>14. /\ s \in Chats /\ ~s.synced /\ KeepsCatchUp(c, s) /\ s.init = c.init
       /\ s.rows = r.rows /\ s.overlay = r.overlay /\ s.range = c.range /\ s.older = r.older
  BY <1>1, <1>4, <1>5, <1>8, <1>11, <1>10, InstalledPart
<1>15. d = s
  <2>1. ~Resolves(c, p)
    BY <1>5, <1>8 DEF Resolves
  <2>2. d = [s EXCEPT !.init = @]
    BY <1>6, <1>13, <2>1
  <2> QED
    BY <1>14, <2>2 DEF Chats
<1>16. c.catchUp.at = q.request /\ ~c.catchUp.forcing /\ c.catchUp.fallback
  <2>1. IsAfter(q.request) /\ ~IsAfter(LatestRows)
    BY <1>4, <1>8 DEF IsAfter, LatestRows, RowsAfter
  <2>2. q.request = ResumeRequest(c) /\ q.request \in InFlight(l)
    BY <1>1, <1>4, <1>8 DEF FirstPage
  <2>3. c.catchUp.at # LatestRows
    BY <1>1, <2>1, <2>2 DEF FirstPage, CatchUpOK, Bound, NoAfter
  <2> QED
    BY <1>1, <2>1, <2>2, <2>3 DEF FirstPage
<1>17. /\ c.catchUp.status = "running" /\ c.owed = NoRequest /\ c.scroll = NoRequest /\ ~c.older
       /\ c.member = "acknowledged" /\ l.subscribed /\ c.init # "none"
       /\ c.catchUp.request = RowsAfter(1, 1)
       /\ \A x \in InFlight(l) : x = LatestRows \/ x = RowsAfter(1, 1)
       /\ \A x \in c.rows : x[1] = 1
  BY <1>1, <1>8 DEF FirstPage
<1>18. /\ d \in Chats /\ ~d.synced /\ d.catchUp = c.catchUp /\ d.init = c.init /\ d.member = c.member
       /\ d.owed = c.owed /\ d.scroll = c.scroll /\ d.range = FirstRow /\ d.older = c.older
       /\ d.rows = c.rows \cup Rows(p) /\ d.overlay = c.overlay
  BY <1>8, <1>11, <1>14, <1>15 DEF KeepsCatchUp
<1>19. Continues(d, q) = e
  <2>1. ~d.catchUp.forcing /\ d.catchUp.fallback /\ q.newer /\ q.to # 0
    BY <1>4, <1>5, <1>8, <1>16, <1>18
  <2> QED
    BY <1>17, <1>18, <2>1, ContinuesIs
<1>20. /\ e \in Chats /\ e.member = d.member /\ e.owed = d.owed /\ e.synced = d.synced /\ e.rows = d.rows
       /\ e.overlay = d.overlay /\ e.range = d.range /\ e.older = d.older /\ e.scroll = d.scroll
       /\ e.init = d.init /\ e.forced
       /\ e.catchUp = [d.catchUp EXCEPT !.at = LatestRows, !.forcing = TRUE]
  BY <1>18, FallenBackIs
<1> HIDE DEF e
<1>21. /\ e.catchUp.status = "running" /\ e.catchUp.request = RowsAfter(1, 1) /\ e.catchUp.fallback
       /\ e.catchUp.forcing /\ e.catchUp.at = LatestRows
  <2>1. d.catchUp \in CatchUps
    BY <1>18 DEF Chats
  <2> QED
    BY <1>16, <1>17, <1>18, <1>20, <2>1 DEF CatchUps
<1>22. ASSUME NEW x \in c.rows \cup c.overlay PROVE EarlyOK(t, m, x)
  BY <1>1, <1>2 DEF FreshOK, EarlyOK
<1>23. ASSUME NEW x \in Rows(p) PROVE x[1] = 1 /\ EarlyOK(t, m, x)
  <2>1. KnownOK(t, m, 1, p.last)
    BY <1>1, <1>4, <1>8
  <2> QED
    BY <1>1, <1>2, <1>4, <1>8, <2>1, EarlyInPage
<1>24. TimelineAt(t, m, e)
  <2>1. /\ e.range = FirstRow /\ <<1, 1>> \in e.rows /\ ~e.synced /\ ~e.older /\ e.owed = NoRequest
        /\ e.scroll = NoRequest /\ e.member = "acknowledged" /\ e.init # "none"
    BY <1>8, <1>17, <1>18, <1>20
  <2>2. \A x \in e.rows : x[1] = 1
    BY <1>17, <1>18, <1>20, <1>23
  <2>3. \A x \in e.rows \cup e.overlay : EarlyOK(t, m, x)
    BY <1>18, <1>20, <1>22, <1>23
  <2>4. \A x \in InFlight(m) : x = LatestRows \/ x = RowsAfter(1, 1)
    BY <1>2, <1>17
  <2>5. NoAfter(m) /\ m.subscribed
    BY <1>2, <1>3, <1>16, <1>17
  <2> QED
    BY <1>1, <1>2, <1>17, <1>20, <1>21, <2>1, <2>2, <2>3, <2>4, <2>5, FirstWaits
<1>25. AfterPage(c, d, q) = Cleared(e, q)
  BY <1>16, <1>17, <1>18, <1>19, AfterPageIs
<1>26. q.request # LatestRows
  BY <1>4, <1>5
<1>27. TimelineAt(t, m, Cleared(e, q))
  BY <1>24, <1>26, ClearedIs
<1> QED
  BY <1>25, <1>27 DEF m, q, d

\* What holds of the rows does not depend on the catch-up
LEMMA SameStore ==
    ASSUME NEW t, NEW m, NEW c, Subscribed(t, m, c), Stored(t, m, c), NEW d \in Chats, KeepsStore(c, d)
    PROVE  Subscribed(t, m, d) /\ Stored(t, m, d)
<1>1. /\ t \in Times /\ m \in TimeLinks /\ LineOK(t, m) /\ PagesOK(t, m, c)
      /\ c.member = "acknowledged" /\ m.subscribed
      /\ c.scroll = NoRequest \/ (RequestOK(c.scroll) /\ IsBefore(c.scroll))
  BY DEF Subscribed
<1>2. PagesOK(t, m, d)
  BY <1>1 DEF PagesOK, KeepsStore
<1>3. Subscribed(t, m, d)
  BY <1>1, <1>2 DEF Subscribed, KeepsStore
<1>4. RangeOK(d)
  BY DEF Stored, RangeOK, KeepsStore
<1> QED
  BY <1>3, <1>4 DEF Stored, KeepsStore

\* The rows behind the range, or some rows of it, are awaited
LEMMA RunsFrom ==
    ASSUME NEW t, NEW m, NEW c, Subscribed(t, m, c), c.synced, Stored(t, m, c), c.owed = NoRequest,
           c.catchUp.status = "running", ~c.catchUp.forcing,
           NEW r, c.catchUp.request = r, c.catchUp.at = r, RequestOK(r), IsAfter(r), LastAfter(m, r),
           UpTo(r.epoch, r.seq, c.range.epoch, c.range.to)
    PROVE  TimelineAt(t, m, c)
<1>1. /\ t \in Times /\ m \in TimeLinks /\ c \in Chats /\ LineOK(t, m) /\ PagesOK(t, m, c)
      /\ c.member = "acknowledged" /\ m.subscribed
      /\ c.scroll = NoRequest \/ (RequestOK(c.scroll) /\ IsBefore(c.scroll))
  BY DEF Subscribed
<1>2. m.up
  BY <1>1 DEF LineOK, NoLink
<1>3. MemberOK(t, m, c)
  BY <1>1, <1>2 DEF MemberOK
<1>4. ~IsBefore(r)
  BY DEF IsAfter, IsBefore
<1>5. CatchUpOK(m, c)
  BY <1>4 DEF CatchUpOK, Bound
<1>6. CompleteOK(t, m, c)
  BY DEF CompleteOK
<1>7. SyncedOK(t, m, c)
  BY DEF SyncedOK, Stored
<1> QED
  BY <1>1, <1>3, <1>5, <1>6, <1>7 DEF TimelineAt

\* Nothing but what the catch-up began with is asked for
LEMMA LastOfOthers ==
    ASSUME NEW m \in TimeLinks, NEW x, \A r \in InFlight(m) : r = LatestRows \/ r = x,
           NEW next, IsAfter(next), next # x, AfterUpTo(m, next.epoch, next.seq)
    PROVE  LastAfter(m, next)
<1>1. next # LatestRows
  BY DEF IsAfter, LatestRows
<1>2. next \notin InFlight(m)
  BY <1>1
<1>3. ASSUME NEW i \in 1..Len(m.asked) PROVE m.asked[i] # next
  BY <1>2, InFlightIs
<1>4. ASSUME NEW i \in 1..Len(m.down), IsPage(m.down[i]) PROVE m.down[i].request # next
  BY <1>2, <1>4, InFlightIs
<1>5. NoneBehind(m, next)
  BY <1>3, <1>4 DEF NoneBehind
<1> QED
  BY <1>5 DEF LastAfter

\* A chat whose page is the latest tail
LEMMA TailTaken ==
    ASSUME NEW c \in Chats, NEW l, NEW q, FirstPage(l, c, q), NEW p \in TimePages, PageTells(p),
           p.dir = "tail", ~p.reset, p.epoch = q.epoch, p.last = q.last
    PROVE  /\ Taken(c, p) \in Chats /\ Taken(c, p).synced /\ KeepsCatchUp(c, Taken(c, p))
           /\ RangeOK(Taken(c, p))
           /\ Taken(c, p).range.epoch = p.epoch /\ Taken(c, p).range.to = p.last
           /\ Taken(c, p).range.to = p.to
           /\ p.to # 0 /\ Bootstraps(c, p)
<1> DEFINE r == PageAlone(c, p)
           s == Taken(c, p)
<1>1. Bootstraps(c, p) /\ Replaces(c, p) /\ ~Discards(c, p)
  BY DEF Bootstraps, Replaces, Discards, OfKnownRange, FirstPage
<1>2. p.to = p.last /\ ~p.newer /\ Wide(p) /\ p.to + 1 <= p.from + PageSize
  BY DEF PageTells
<1>3. p.last # 0 /\ p.epoch # 0 /\ p.from # 0 /\ p.from <= p.to /\ (p.older <=> p.from > 1)
  BY <1>2 DEF PageTells
<1>4. Filled(p)
  BY <1>2, <1>3 DEF Filled
<1>5. /\ r \in Chats /\ OtherRows(c, r) /\ r.rows = Rows(p) /\ Rows(p) = Rows(r.range)
      /\ r.overlay = {x \in c.overlay : x[1] = p.epoch /\ x[2] > p.to}
      /\ r.range = [epoch |-> p.epoch, from |-> p.from, to |-> p.to] /\ r.older = p.older
  BY <1>2, <1>4, PageAloneIs
<1>6. s = Unforced(Installed(c, p, r), p)
  BY <1>1 DEF Taken, Settled, Result, Unforced
<1>7. {x \in c.overlay : x[1] = p.epoch /\ x[2] > p.last} = {}
  <2>1. FirstPage(l, c, q) => \A x \in c.overlay : KnownRow(x, q)
    BY DEF FirstPage
  <2> SUFFICES ASSUME NEW x \in c.overlay, x[1] = p.epoch, x[2] > p.last PROVE FALSE
    OBVIOUS
  <2>2. x[1] \in Nat /\ x[2] \in Nat /\ UpTo(x[1], x[2], p.epoch, p.last) /\ p.last \in Nat
    BY <2>1 DEF KnownRow, TimePages
  <2> QED
    BY <2>2 DEF UpTo
<1> HIDE DEF r, s
<1>8. r.rows \cup r.overlay = Rows(r.range)
  BY <1>2, <1>5, <1>7
<1>9. r.range.epoch = p.epoch /\ r.range.from = p.from /\ r.range.to = p.to
  BY <1>5
<1>10. Wide(r.range) /\ (r.range.from = 1 \/ r.older)
  <2>1. Wide(r.range)
    BY <1>2, <1>9 DEF Wide
  <2>2. p.from \in Nat
    BY DEF TimePages
  <2> QED
    BY <1>3, <1>5, <1>9, <2>1, <2>2
<1>11. /\ s \in Chats /\ s.synced /\ KeepsCatchUp(c, s) /\ RangeOK(s) /\ s.range = r.range
  BY <1>3, <1>5, <1>6, <1>8, <1>9, <1>10, FirstInstalled
<1> QED
  BY <1>1, <1>2, <1>3, <1>9, <1>11 DEF s
\* A catch-up from a place
LEMMA StartsAt ==
    ASSUME NEW c, c.member = "acknowledged", NEW next, next # NoRequest
    PROVE  /\ c.catchUp.status = "running" /\ c.catchUp.request = next => StartsCatchUp(c, next, TRUE) = c
           /\ c.catchUp.status = "running" /\ c.catchUp.request # next /\ c.catchUp.request.dir = "tail"
                => StartsCatchUp(c, next, TRUE) = [c EXCEPT !.owed = next]
           /\ c.catchUp.status = "running" /\ c.catchUp.request # next /\ c.catchUp.request.dir # "tail"
                => StartsCatchUp(c, next, TRUE) = BeginsCatchUp(c, next, FALSE)
           /\ c.catchUp.status # "running" => StartsCatchUp(c, next, TRUE) = BeginsCatchUp(c, next, FALSE)
<1>1. Sought(c, next) = next
  BY DEF Sought
<1>2. FallsBack(c, next) = FALSE
  BY DEF FallsBack
<1> DEFINE s == StartsCatchUp(c, next, TRUE)
           b == BeginsCatchUp(c, Sought(c, next), FallsBack(c, next))
<1>3. c.catchUp.status = "running" /\ c.catchUp.request = Sought(c, next) => s = c
  BY StartsIs
<1>4. c.catchUp.status = "running" /\ c.catchUp.request # Sought(c, next) /\ c.catchUp.request.dir = "tail"
        => s = [c EXCEPT !.owed = Sought(c, next)]
  BY StartsIs
<1>5. \/ c.catchUp.status = "running" /\ c.catchUp.request = Sought(c, next)
      \/ c.catchUp.status = "running" /\ c.catchUp.request.dir = "tail"
      \/ s = b
  BY StartsIs
<1>6. b = BeginsCatchUp(c, next, FALSE)
  BY <1>1, <1>2
<1> HIDE DEF b
<1>7. c.catchUp.status = "running" /\ c.catchUp.request # next /\ c.catchUp.request.dir # "tail" => s = b
  BY <1>1, <1>5
<1>8. c.catchUp.status # "running" => s = b
  BY <1>5
<1> QED
  BY <1>1, <1>3, <1>4, <1>6, <1>7, <1>8

\* The tail is the first page: the catch-up begins behind it, or is there already
LEMMA FirstTail ==
    ASSUME NEW t, NEW l, NEW c, TimelineAt(t, l, c), l.down # <<>>, ~c.synced, IsPage(l.down[1]),
           l.down[1].request = LatestRows, ~AsForced(c, l.down[1]).reset
    PROVE  TimelineAt(t, Behind(l), AfterPage(c, Reconciled(c, l.down[1]), l.down[1]))
<1> DEFINE q == l.down[1]
           m == Behind(l)
           p == AsForced(c, q)
           s == Taken(c, p)
           next == RowsAfter(p.epoch, p.to)
           f == StartsCatchUp(s, next, TRUE)
           d == Reconciled(c, q)
<1>1. /\ c \in Chats /\ CatchUpOK(l, c) /\ FirstPage(l, c, q) /\ q \in TimePages /\ PageIs(q)
      /\ t \in Times /\ l \in TimeLinks /\ PagesOK(t, l, c)
  BY FirstPageIs, PageBehind DEF TimelineAt
<1>2. /\ m \in TimeLinks /\ InFlight(m) \subseteq InFlight(l)
      /\ \A b : NoneBehind(l, b) => NoneBehind(m, b)
  BY <1>1, BehindIs
<1>3. q.request = LatestRows
  OBVIOUS
<1>4. \A x \in Chats : x.synced /\ RangeOK(x) /\ KeepsCatchUp(c, x) /\ x.range.epoch = q.epoch
                       /\ x.range.to = q.last => Subscribed(t, m, x) /\ Stored(t, m, x)
  BY FirstStored
<1> HIDE DEF q, m
<1>5. /\ p \in TimePages /\ PageTells(p)
      /\ p.dir = q.dir /\ p.request = q.request /\ p.epoch = q.epoch /\ p.last = q.last
      /\ p.from = q.from /\ p.to = q.to /\ p.older = q.older /\ p.newer = q.newer
      /\ p.reset <=> q.reset \/ (q.dir = "tail" /\ c.forced)
  BY <1>1, AsForcedIs
<1>6. ~p.reset
  BY DEF q
<1>7. p.dir = "tail"
  <2>1. p.dir = p.request.dir
    BY <1>5 DEF PageTells
  <2>2. p.request = LatestRows
    BY <1>3, <1>5
  <2> QED
    BY <2>1, <2>2 DEF LatestRows
<1>8. ~p.newer /\ ~q.newer /\ p.to = p.last /\ p.epoch \in Nat \ {0} /\ p.last \in Nat \ {0}
  BY <1>5, <1>7 DEF PageTells, TimePages
<1>9. d = [Followed(c, p, s) EXCEPT !.init = IF Resolves(c, p) THEN "none" ELSE @]
  BY ReconciledIs
<1> HIDE DEF p
<1>10. /\ s \in Chats /\ s.synced /\ KeepsCatchUp(c, s) /\ RangeOK(s)
       /\ s.range.epoch = p.epoch /\ s.range.to = p.last /\ p.to # 0 /\ Bootstraps(c, p)
  BY <1>1, <1>5, <1>6, <1>7, TailTaken
<1> HIDE DEF s
<1>11. Subscribed(t, m, s) /\ Stored(t, m, s)
  BY <1>4, <1>5, <1>10
<1>12. /\ c.catchUp.status = "running" /\ c.owed = NoRequest /\ c.member = "acknowledged"
       /\ c.catchUp.request = ResumeRequest(c) /\ c.catchUp.at = ResumeRequest(c) /\ ~c.catchUp.forcing
       /\ \A r \in InFlight(l) : r = LatestRows \/ r = ResumeRequest(c)
       /\ ResumeRequest(c) = LatestRows \/ ResumeRequest(c) = RowsAfter(1, 1)
  <2>1. ~c.forced
    BY <1>5, <1>6, <1>7
  <2> QED
    BY <1>1, <2>1 DEF FirstPage
<1>13. /\ s.catchUp = c.catchUp /\ s.owed = NoRequest /\ s.member = "acknowledged"
  BY <1>10, <1>12 DEF KeepsCatchUp
<1>14. Followed(c, p, s) = f
  <2>1. Followed(c, p, s) = RecoversGap(s, p.epoch, p.to)
    BY <1>10 DEF Followed
  <2>2. s.catchUp.status # "error"
    BY <1>12, <1>13
  <2> QED
    BY <2>1, <2>2 DEF RecoversGap
<1>15. /\ next \in Fetched /\ next.dir = "after" /\ next # NoRequest /\ next # LatestRows
       /\ next.epoch = p.epoch /\ next.seq = p.last /\ RequestOK(next) /\ IsAfter(next)
  BY <1>8 DEF RowsAfter, Fetched, NoRequest, LatestRows, RequestOK, IsAfter
<1>16. next = RowsAfter(p.epoch, p.to)
  OBVIOUS
<1> HIDE DEF next
<1>18. UpTo(next.epoch, next.seq, s.range.epoch, s.range.to) /\ AfterUpTo(m, next.epoch, next.seq)
  <2>1. UpTo(next.epoch, next.seq, s.range.epoch, s.range.to)
    BY <1>8, <1>10, <1>15 DEF UpTo
  <2>2. AfterUpTo(m, next.epoch, next.seq)
    BY <1>10, <1>11, <1>15 DEF Stored
  <2> QED
    BY <2>1, <2>2
<1>19. LastAfter(m, next)
  <2>1. CASE next = ResumeRequest(c)
    <3>1. LastAfter(l, next)
      BY <1>1, <1>12, <1>15, <2>1 DEF CatchUpOK, Bound
    <3>2. NoneBehind(m, next)
      BY <1>2, <3>1 DEF LastAfter
    <3> QED
      BY <1>18, <3>2 DEF LastAfter
  <2>2. CASE next # ResumeRequest(c)
    <3>1. \A r \in InFlight(m) : r = LatestRows \/ r = ResumeRequest(c)
      BY <1>2, <1>12
    <3> QED
      BY <1>2, <1>15, <1>18, <2>2, <3>1, LastOfOthers
  <2> QED
    BY <2>1, <2>2
<1>20. CASE next = ResumeRequest(c)
  <2>1. f = s
    <3>1. s.catchUp.status = "running" /\ s.catchUp.request = next /\ s.member = "acknowledged"
      BY <1>12, <1>13, <1>20
    <3> QED
      BY <1>15, <3>1, StartsAt
  <2>2. d = [s EXCEPT !.init = IF Resolves(c, p) THEN "none" ELSE @]
    BY <1>9, <1>14, <2>1
  <2> HIDE DEF d, f
  <2>3. d \in Chats /\ KeepsStore(s, d) /\ KeepsCatchUp(s, d)
    <3> DEFINE x == IF Resolves(c, p) THEN "none" ELSE s.init
    <3>1. d = [s EXCEPT !.init = x] /\ x \in {"none", "tail", "after", "before"}
      BY <1>10, <2>2 DEF Chats
    <3> HIDE DEF x
    <3> QED
      BY <1>10, <3>1 DEF Chats, KeepsStore, KeepsCatchUp
  <2>4. Subscribed(t, m, d) /\ Stored(t, m, d)
    BY <1>11, <2>3, SameStore
  <2>5. /\ d.synced /\ d.owed = NoRequest /\ d.catchUp.status = "running" /\ ~d.catchUp.forcing
        /\ d.catchUp.request = next /\ d.catchUp.at = next /\ d.range = s.range
    BY <1>10, <1>12, <1>13, <1>20, <2>3 DEF KeepsStore, KeepsCatchUp
  <2>6. TimelineAt(t, m, d)
    BY <1>15, <1>18, <1>19, <2>4, <2>5, RunsFrom
  <2>7. AfterPage(c, d, q) = Cleared(d, q)
    BY <1>3, <1>12, <1>15, <1>20, AfterPageIs
  <2>8. TimelineAt(t, m, Cleared(d, q))
    BY <2>5, <2>6, ClearedIs
  <2> QED
    BY <2>7, <2>8 DEF m, q, d
<1>21. CASE next # ResumeRequest(c) /\ ResumeRequest(c) = LatestRows
  <2>1. f = [s EXCEPT !.owed = next]
    <3>1. s.catchUp.status = "running" /\ s.catchUp.request # next /\ s.catchUp.request.dir = "tail"
      BY <1>12, <1>13, <1>21 DEF LatestRows
    <3> QED
      BY <1>12, <1>13, <1>15, <3>1, StartsAt
  <2>2. d = [f EXCEPT !.init = IF Resolves(c, p) THEN "none" ELSE @]
    BY <1>9, <1>14
  <2> HIDE DEF d, f
  <2>3. /\ d \in Chats /\ KeepsStore(s, d) /\ d.catchUp = s.catchUp /\ d.owed = next
    <3>1. f \in Chats /\ KeepsStore(s, f) /\ f.catchUp = s.catchUp /\ f.owed = next
      BY <1>10, <1>15, <2>1 DEF Chats, KeepsStore
    <3> DEFINE x == IF Resolves(c, p) THEN "none" ELSE f.init
    <3>2. d = [f EXCEPT !.init = x] /\ x \in {"none", "tail", "after", "before"}
      BY <2>2, <3>1 DEF Chats
    <3> HIDE DEF x
    <3> QED
      BY <3>1, <3>2 DEF Chats, KeepsStore
  <2> DEFINE done == [d EXCEPT !.catchUp.status = "complete", !.catchUp.forcing = FALSE]
             k == [d.catchUp EXCEPT !.status = "complete", !.forcing = FALSE]
  <2>4. k \in CatchUps /\ k.status = "complete" /\ k # NoCatchUp
    BY <2>3 DEF Chats, CatchUps, NoCatchUp
  <2>5. done = [d EXCEPT !.catchUp = k]
    BY <2>3 DEF Chats
  <2>6. Continues(d, q) = EndsCatchUp(done)
    BY <1>8, <1>12, <1>13, <2>3 DEF Continues
  <2> HIDE DEF done, k
  <2>7. done \in Chats /\ KeepsStore(s, done) /\ done.owed = next /\ done.catchUp = k
    BY <2>3, <2>4, <2>5 DEF Chats, KeepsStore
  <2>8. done.member = "acknowledged" /\ done.synced /\ done.range = s.range
    BY <1>10, <1>13, <2>7 DEF KeepsStore
  <2>9. EndsCatchUp(done) = StartsCatchUp(done, next, TRUE)
    BY <1>15, <2>7 DEF EndsCatchUp
  <2>11. StartsCatchUp(done, next, TRUE) = BeginsCatchUp(done, next, FALSE)
    BY <1>15, <2>4, <2>7, <2>8, StartsAt
  <2>12. Subscribed(t, m, done) /\ Stored(t, m, done)
    BY <1>11, <2>7, SameStore
  <2> DEFINE e == BeginsCatchUp(done, next, FALSE)
  <2>13. TimelineAt(t, m, e)
    BY <1>15, <1>18, <1>19, <2>8, <2>12, BeginsSynced
  <2>14. e.catchUp.status = "running"
    <3>1. e.catchUp = Begun(next, FALSE)
      BY <1>15, <2>7, BeginsIs
    <3>2. Begun(next, FALSE).status = "running"
      BY DEF Begun
    <3> QED
      BY <3>1, <3>2
  <2> HIDE DEF e
  <2>15. AfterPage(c, d, q) = Cleared(e, q)
    <3>1. c.catchUp.status = "running" /\ c.catchUp.at = q.request /\ d.catchUp = c.catchUp
      BY <1>3, <1>12, <1>13, <1>21, <2>3
    <3>2. AfterPage(c, d, q) = Cleared(Continues(d, q), q)
      BY <3>1, AfterPageIs
    <3>3. Continues(d, q) = e
      BY <2>6, <2>9, <2>11 DEF e
    <3> QED
      BY <3>2, <3>3
  <2>16. TimelineAt(t, m, Cleared(e, q))
    BY <2>13, <2>14, ClearedIs
  <2> QED
    BY <2>15, <2>16 DEF m, q, d
<1>22. CASE next # ResumeRequest(c) /\ ResumeRequest(c) # LatestRows
  <2>1. f = BeginsCatchUp(s, next, FALSE)
    <3>1. s.catchUp.request # next /\ s.catchUp.request.dir # "tail"
      BY <1>12, <1>13, <1>22 DEF RowsAfter
    <3> QED
      BY <1>12, <1>13, <1>15, <3>1, StartsAt
  <2>2. d = [f EXCEPT !.init = IF Resolves(c, p) THEN "none" ELSE @]
    BY <1>9, <1>14
  <2> HIDE DEF d, f
  <2>3. TimelineAt(t, m, f)
    BY <1>10, <1>11, <1>15, <1>18, <1>19, <2>1, BeginsSynced
  <2>4. f \in Chats /\ KeepsStore(s, f) /\ f.catchUp = Begun(next, FALSE)
    BY <1>10, <1>15, <2>1, BeginsIs
  <2>5. /\ d \in Chats /\ KeepsStore(f, d) /\ d.catchUp = f.catchUp /\ d.owed = f.owed /\ d.error = f.error
    <3> DEFINE x == IF Resolves(c, p) THEN "none" ELSE f.init
    <3>1. d = [f EXCEPT !.init = x] /\ x \in {"none", "tail", "after", "before"}
      BY <2>2, <2>4 DEF Chats
    <3> HIDE DEF x
    <3> QED
      BY <2>4, <3>1 DEF Chats, KeepsStore
  <2>6. f.synced /\ f.catchUp.status = "running" /\ f.catchUp.request = next
    BY <1>10, <2>4 DEF KeepsStore, Begun
  <2>7. TimelineAt(t, m, d)
    BY <2>3, <2>5, <2>6, Alike
  <2>8. d.catchUp # c.catchUp
    BY <1>12, <1>22, <2>5, <2>6
  <2>9. AfterPage(c, d, q) = Cleared(d, q)
    BY <2>8, AfterPageIs
  <2>10. TimelineAt(t, m, Cleared(d, q))
    BY <2>5, <2>6, <2>7, ClearedIs
  <2> QED
    BY <2>9, <2>10 DEF m, q, d
<1> QED
  BY <1>20, <1>21, <1>22

\* Any chat takes any page
LEMMA PageStep ==
    ASSUME NEW t, NEW l, NEW c, TimelineAt(t, l, c), l.down # <<>>, IsPage(l.down[1])
    PROVE  TimelineAt(t, Behind(l), AfterPage(c, Reconciled(c, l.down[1]), l.down[1]))
BY SyncedPageStep, FirstReset, FirstFull, FirstPart, FirstTail

\* Any chat takes a row or a word
LEMMA NoticeStep ==
    ASSUME NEW t, NEW l, NEW c, TimelineAt(t, l, c), l.down # <<>>, ~IsPage(l.down[1])
    PROVE  TimelineAt(t, Behind(l), Noticed(c, l.down[1]))
<1> DEFINE x == l.down[1]
<1>1. x \in TimeMail
  <2>1. PagesOK(t, l, c)
    BY DEF TimelineAt
  <2> QED
    BY <2>1, BehindIs
<1>2. IsRow(x) \/ x.kind \in {"replaced", "acknowledged", "refused"}
  BY <1>1, MailIs DEF IsTold
<1>3. CASE IsRow(x)
  <2>1. TimelineAt(t, Behind(l), TakesRow(c, x.epoch, x.seq))
    BY <1>3, RowStep
  <2>2. Noticed(c, x) = TakesRow(c, x.epoch, x.seq)
    BY <1>3 DEF Noticed, IsRow
  <2> QED
    BY <2>1, <2>2
<1>4. CASE x.kind = "acknowledged"
  <2>1. TimelineAt(t, Behind(l), StartsAcknowledged([c EXCEPT !.member = "acknowledged"]))
    BY <1>4, AcknowledgedStep
  <2>2. Noticed(c, x) = StartsAcknowledged([c EXCEPT !.member = "acknowledged"])
    BY <1>4 DEF Noticed
  <2> QED
    BY <2>1, <2>2
<1>5. CASE x.kind = "refused"
  <2>1. TimelineAt(t, Behind(l), Failed(CatchUpCancelled([c EXCEPT !.member = "failed"])))
    BY <1>5, RefusedStep
  <2>2. Noticed(c, x) = Failed(CatchUpCancelled([c EXCEPT !.member = "failed"]))
    BY <1>5 DEF Noticed
  <2> QED
    BY <2>1, <2>2
<1>6. CASE x.kind = "replaced"
  <2>1. TimelineAt(t, Behind(l), [c EXCEPT !.replacing = TRUE])
    BY <1>6, ReplacedStep
  <2>2. Noticed(c, x) = [c EXCEPT !.replacing = TRUE]
    BY <1>6 DEF Noticed
  <2> QED
    BY <2>1, <2>2
<1> QED
  BY <1>2, <1>3, <1>4, <1>5, <1>6

\* The head of the line is taken, and what the chat waits for is asked for
LEMMA ReceivesStep ==
    ASSUME TimelineAt(timeline, link, chat), Receives
    PROVE  TimelineAt(timeline', link', chat') /\ Awaited(link', chat')
<1>1. link.down # <<>> /\ timeline' = timeline
  BY DEF Receives
<1>2. Head(link.down) = link.down[1]
  <2>1. PagesOK(timeline, link, chat)
    BY DEF TimelineAt
  <2> QED
    BY <1>1, <2>1, BehindIs
<1> DEFINE x == link.down[1]
           m == Behind(link)
<1>3. \/ x.kind = "page" /\ AppGoes(m, AfterPage(chat, Reconciled(chat, x), x))
      \/ x.kind # "page" /\ AppGoes(m, Noticed(chat, x))
  BY <1>2 DEF Receives, Behind
<1>4. \E c : TimelineAt(timeline, m, c) /\ chat' = c /\ link' = AsksFor(m, c)
  <2>1. CASE x.kind = "page" /\ AppGoes(m, AfterPage(chat, Reconciled(chat, x), x))
    <3>1. TimelineAt(timeline, m, AfterPage(chat, Reconciled(chat, x), x))
      BY <1>1, <2>1, PageStep DEF IsPage
    <3> QED
      BY <2>1, <3>1 DEF AppGoes
  <2>2. CASE x.kind # "page" /\ AppGoes(m, Noticed(chat, x))
    <3>1. TimelineAt(timeline, m, Noticed(chat, x))
      BY <1>1, <2>2, NoticeStep DEF IsPage
    <3> QED
      BY <2>2, <3>1 DEF AppGoes
  <2> QED
    BY <1>3, <2>1, <2>2
<1> HIDE DEF m
<1>5. PICK c : TimelineAt(timeline, m, c) /\ chat' = c /\ link' = AsksFor(m, c)
  BY <1>4
<1>6. TimelineAt(timeline, AsksFor(m, c), c) /\ Awaited(AsksFor(m, c), c)
  BY <1>5, AsksForAll
<1> QED
  BY <1>1, <1>5, <1>6
-----------------------------------------------------------------------------
(* A request fails *)
LEMMA LostCarries ==
    ASSUME NEW t, NEW l, NEW c, TimelineAt(t, l, c), NEW request, NEW m \in Without(l, request)
    PROVE  TimelineAt(t, m, c)
<1>1. /\ t \in Times /\ l \in TimeLinks /\ c \in Chats /\ LineOK(t, l) /\ PagesOK(t, l, c)
      /\ MemberOK(t, l, c) /\ CompleteOK(t, l, c)
  BY DEF TimelineAt
<1>2. /\ l.up /\ m \in TimeLinks /\ m.up /\ m.subscribed = l.subscribed
      /\ LineOK(t, m) /\ PagesOK(t, m, c)
      /\ InFlight(m) \subseteq InFlight(l)
  BY <1>1, Lost
<1>3. \A b : NoneBehind(l, b) => NoneBehind(m, b)
  BY <1>1, Lost
<1>4. \A e, n \in Nat : KnownOK(t, l, e, n) => KnownOK(t, m, e, n)
  BY <1>1, Lost
<1>5. ToAcknowledge(l.down) => ToAcknowledge(m.down)
  BY <1>1, Lost
<1>6. CompleteOK(t, m, c)
  <2>1. c.range.epoch \in Nat /\ c.range.to \in Nat
    BY <1>1 DEF Chats, Ranges
  <2>2. Rest(t, l.down, 0, c.range.epoch, c.range.to) => Rest(t, m.down, 0, c.range.epoch, c.range.to)
    BY <1>1, <2>1, Lost
  <2> QED
    BY <1>1, <2>2 DEF CompleteOK
<1>7. /\ c.member = "acknowledged" => m.subscribed
      /\ c.member # "acknowledged" /\ m.subscribed => ToAcknowledge(m.down)
  BY <1>1, <1>2, <1>5 DEF MemberOK
<1>8. m.up = l.up
  BY <1>1, <1>2 DEF TimeLinks
<1> QED
  BY <1>1, <1>2, <1>3, <1>4, <1>6, <1>7, <1>8, Carried

\* What the app waited for besides the catch-up
LEMMA Released ==
    ASSUME NEW t, NEW m, NEW c, TimelineAt(t, m, c), NEW d \in Chats,
           KeepsStore(c, [d EXCEPT !.scroll = c.scroll, !.forced = c.forced]),
           d.catchUp = c.catchUp, d.owed = c.owed, d.error = c.error, d.init = c.init,
           d.scroll = NoRequest \/ d.scroll = c.scroll, c.synced \/ d.forced = c.forced
    PROVE  TimelineAt(t, m, d)
<1>1. /\ d.member = c.member /\ d.synced = c.synced /\ d.rows = c.rows /\ d.overlay = c.overlay
      /\ d.range = c.range /\ d.older = c.older /\ d.newer = c.newer
      /\ d.replacing = c.replacing
  BY DEF KeepsStore, Chats
<1>2. /\ t \in Times /\ m \in TimeLinks /\ LineOK(t, m) /\ PagesOK(t, m, c)
      /\ MemberOK(t, m, c) /\ CompleteOK(t, m, c) /\ CatchUpOK(m, c)
      /\ (c.synced => SyncedOK(t, m, c)) /\ (~c.synced => FreshOK(t, m, c))
  BY DEF TimelineAt
<1>3. MemberOK(t, m, d)
  BY <1>1, <1>2 DEF MemberOK
<1>4. PagesOK(t, m, d) /\ CompleteOK(t, m, d)
  BY <1>1, <1>2 DEF PagesOK, CompleteOK
<1>5. CatchUpOK(m, d)
  BY <1>2 DEF CatchUpOK, Bound
<1>6. d.synced => SyncedOK(t, m, d)
  BY <1>1, <1>2 DEF SyncedOK, RangeOK
<1>7. ResumeRequest(d) = ResumeRequest(c)
  BY <1>1 DEF ResumeRequest
<1>8. ~d.synced => FreshOK(t, m, d)
  BY <1>1, <1>2, <1>7 DEF FreshOK
<1> QED
  BY <1>2, <1>3, <1>4, <1>5, <1>6, <1>8 DEF TimelineAt

\* The catch-up of a synchronized chat ends with an error
LEMMA Errs ==
    ASSUME NEW t, NEW m, NEW c, TimelineAt(t, m, c), c.synced, c.catchUp.status = "running",
           NEW d \in Chats, KeepsStore(c, d), d.owed = c.owed, d.error, d.catchUp.status = "error",
           d.catchUp.request = IF c.catchUp.forcing THEN c.catchUp.request ELSE c.catchUp.at
    PROVE  TimelineAt(t, m, d)
<1>1. /\ t \in Times /\ m \in TimeLinks /\ LineOK(t, m) /\ PagesOK(t, m, c)
      /\ MemberOK(t, m, c) /\ CatchUpOK(m, c) /\ SyncedOK(t, m, c)
  BY DEF TimelineAt
<1> DEFINE r == d.catchUp.request
<1>2. c.member = "acknowledged" /\ d.member = "acknowledged"
  BY <1>1 DEF MemberOK, NoCatchUp, KeepsStore
<1>3. /\ RequestOK(r) /\ IsAfter(r) /\ UpTo(r.epoch, r.seq, c.range.epoch, c.range.to) /\ LastAfter(m, r)
  <2>1. CASE c.catchUp.forcing
    <3>1. c.catchUp.at = LatestRows /\ r = c.catchUp.request
      BY <1>1, <2>1 DEF SyncedOK
    <3>2. NoAfter(m)
      BY <1>1, <3>1 DEF CatchUpOK, Bound, IsAfter, LatestRows
    <3> QED
      BY <1>1, <3>1, <3>2, LastOfNone DEF SyncedOK
  <2>2. CASE ~c.catchUp.forcing
    <3>1. r = c.catchUp.at /\ IsAfter(c.catchUp.at)
      BY <1>1, <2>2 DEF SyncedOK
    <3>2. RequestOK(r) /\ LastAfter(m, r)
      BY <1>1, <3>1 DEF CatchUpOK, Bound
    <3> QED
      BY <1>1, <3>1, <3>2 DEF SyncedOK
  <2> QED
    BY <2>1, <2>2
<1> HIDE DEF r
<1>4. d.catchUp.request = r
  BY DEF r
<1>5. MemberOK(t, m, d)
  BY <1>1, <1>2 DEF MemberOK, KeepsStore
<1>6. PagesOK(t, m, d)
  BY <1>1, <1>2 DEF PagesOK
<1>7. CompleteOK(t, m, d)
  BY DEF CompleteOK
<1>8. ~IsBefore(r)
  BY <1>3 DEF IsAfter, IsBefore
<1>9. CatchUpOK(m, d)
  BY <1>3, <1>4, <1>8 DEF CatchUpOK, Bound
<1>10. SyncedOK(t, m, d)
  <2>1. RangeOK(d) /\ d.range = c.range
    BY <1>1 DEF SyncedOK, RangeOK, KeepsStore
  <2> QED
    BY <1>1, <1>3, <1>4, <2>1 DEF SyncedOK
<1> QED
  BY <1>1, <1>5, <1>6, <1>7, <1>9, <1>10 DEF TimelineAt, KeepsStore
Freed(c, request) ==
    [c EXCEPT !.replacing = @ /\ request # LatestRows,
              !.forced = @ /\ request # LatestRows,
              !.scroll = IF @ = request THEN NoRequest ELSE @]
Erred(c, request) ==
    Failed([Freed(c, request) EXCEPT
              !.catchUp.status = "error", !.catchUp.forcing = FALSE,
              !.catchUp.request = IF c.catchUp.forcing THEN @ ELSE request,
              !.init = IF c.catchUp.forcing THEN @ ELSE "none"])

\* A request that failed is waited for no longer
LEMMA FreedIs ==
    ASSUME NEW c \in Chats, NEW request, request = LatestRows => ~c.replacing
    PROVE  LET d == Freed(c, request)
           IN  /\ d \in Chats /\ d.member = c.member /\ d.synced = c.synced /\ d.rows = c.rows
               /\ d.overlay = c.overlay /\ d.range = c.range /\ d.older = c.older /\ d.newer = c.newer
               /\ d.replacing = c.replacing /\ d.catchUp = c.catchUp /\ d.owed = c.owed
               /\ d.error = c.error /\ d.init = c.init
               /\ d.scroll = NoRequest \/ d.scroll = c.scroll
               /\ request # LatestRows \/ ~c.forced => d.forced = c.forced
<1> DEFINE live == c.replacing /\ request # LatestRows
           hold == c.forced /\ request # LatestRows
           seen == IF c.scroll = request THEN NoRequest ELSE c.scroll
           d    == Freed(c, request)
<1>1. c.replacing \in BOOLEAN /\ c.forced \in BOOLEAN
  BY DEF Chats
<1>2. live = c.replacing /\ hold \in BOOLEAN
  BY <1>1
<1>3. request # LatestRows \/ ~c.forced => hold = c.forced
  BY <1>1
<1>4. seen \in Fetched /\ (seen = NoRequest \/ seen = c.scroll)
  BY DEF Chats, Fetched, NoRequest
<1>5. d = [c EXCEPT !.replacing = live, !.forced = hold, !.scroll = seen]
  BY DEF Freed
<1> HIDE DEF live, hold, seen, d
<1>6. /\ d \in Chats /\ d.member = c.member /\ d.synced = c.synced /\ d.rows = c.rows
      /\ d.overlay = c.overlay /\ d.range = c.range /\ d.older = c.older /\ d.newer = c.newer
      /\ d.replacing = live /\ d.catchUp = c.catchUp /\ d.owed = c.owed
      /\ d.error = c.error /\ d.init = c.init /\ d.scroll = seen /\ d.forced = hold
  BY <1>1, <1>2, <1>4, <1>5 DEF Chats
<1> QED
  BY <1>2, <1>3, <1>4, <1>6 DEF d

\* The catch-up of a failed request ends in an error
LEMMA ErredIs ==
    ASSUME NEW c \in Chats, NEW request \in Fetched, Freed(c, request) \in Chats,
           Freed(c, request).catchUp = c.catchUp
    PROVE  LET b == Freed(c, request)
               d == Erred(c, request)
           IN  /\ d \in Chats /\ KeepsStore(b, d) /\ d.owed = b.owed /\ d.error
               /\ d.catchUp.status = "error"
               /\ d.catchUp.request = IF c.catchUp.forcing THEN c.catchUp.request ELSE request
<1> DEFINE b == Freed(c, request)
           d == Erred(c, request)
           asked == IF c.catchUp.forcing THEN c.catchUp.request ELSE request
           init == IF c.catchUp.forcing THEN b.init ELSE "none"
           k == [b.catchUp EXCEPT !.status = "error", !.forcing = FALSE, !.request = asked]
<1>1. b \in Chats /\ b.catchUp = c.catchUp /\ b.catchUp \in CatchUps
  BY DEF Chats
<1>2. asked \in Fetched
  BY DEF Chats, CatchUps
<1>3. init \in {"none", "tail", "after", "before"}
  BY <1>1 DEF Chats
<1>4. d = [b EXCEPT !.catchUp = k, !.init = init, !.pending = FALSE, !.error = TRUE, !.retrying = FALSE]
  BY <1>1 DEF Erred, Failed, Chats, CatchUps
<1> HIDE DEF asked, init, b, d
<1>5. k \in CatchUps /\ k.status = "error" /\ k.request = asked
  BY <1>1, <1>2 DEF CatchUps
<1> HIDE DEF k
<1>6. /\ d \in Chats /\ KeepsStore(b, d) /\ d.owed = b.owed /\ d.error /\ d.catchUp = k
  BY <1>1, <1>3, <1>4, <1>5, ZenonT(40) DEF Chats, KeepsStore
<1> QED
  BY <1>5, <1>6 DEF b, d, asked

\* A failed request, except where rows go missing for good (missed)
LEMMA RequestFailsStep ==
    ASSUME TimelineAt(timeline, link, chat), NEW request, RequestFails(request), ~missed'
    PROVE  TimelineAt(timeline', link', chat') /\ Awaited(link', chat')
<1> DEFINE mine == chat.catchUp.status = "running" /\ chat.catchUp.at = request
           c == Freed(chat, request)
           e == Erred(chat, request)
<1>1. /\ chat \in Chats /\ link \in TimeLinks /\ request \in InFlight(link) /\ timeline' = timeline
      /\ ~(request = LatestRows /\ chat.replacing) /\ ~(mine /\ ~chat.synced)
  BY DEF TimelineAt, RequestFails
<1>2. PICK m \in Without(link, request) : AppGoes(m, IF ~mine THEN c ELSE e)
  BY DEF RequestFails, Freed, Erred
<1>3. TimelineAt(timeline, m, chat)
  BY LostCarries
<1>4. /\ c \in Chats /\ c.member = chat.member /\ c.synced = chat.synced /\ c.rows = chat.rows
      /\ c.overlay = chat.overlay /\ c.range = chat.range /\ c.older = chat.older /\ c.newer = chat.newer
      /\ c.replacing = chat.replacing /\ c.catchUp = chat.catchUp /\ c.owed = chat.owed
      /\ c.error = chat.error /\ c.init = chat.init
      /\ c.scroll = NoRequest \/ c.scroll = chat.scroll
      /\ request # LatestRows \/ ~chat.forced => c.forced = chat.forced
  BY <1>1, FreedIs
<1>5. /\ e \in Chats /\ KeepsStore(c, e) /\ e.owed = c.owed /\ e.error /\ e.catchUp.status = "error"
      /\ e.catchUp.request = IF chat.catchUp.forcing THEN chat.catchUp.request ELSE request
  BY <1>1, <1>4, ErredIs, InFlightFetched
<1> HIDE DEF c, e, mine
<1>6. chat.synced \/ c.forced = chat.forced
  <2>1. SUFFICES ASSUME ~chat.synced, chat.forced, request = LatestRows PROVE FALSE
    BY <1>4
  <2>2. FreshOK(timeline, link, chat)
    BY <2>1 DEF TimelineAt
  <2>3. mine
    BY <2>1, <2>2 DEF FreshOK, mine
  <2> QED
    BY <1>1, <2>1, <2>3
<1>7. TimelineAt(timeline, m, c)
  <2>1. KeepsStore(chat, [c EXCEPT !.scroll = chat.scroll, !.forced = chat.forced])
    BY <1>1, <1>4 DEF Chats, KeepsStore
  <2> QED
    BY <1>3, <1>4, <1>6, <2>1, Released
<1>8. \E d : TimelineAt(timeline, m, d) /\ chat' = d /\ link' = AsksFor(m, d)
  <2>1. CASE ~mine
    BY <1>2, <1>7, <2>1 DEF AppGoes
  <2>2. CASE mine
    <3>1. c.synced /\ c.catchUp.status = "running" /\ c.catchUp.at = request
          /\ c.catchUp = chat.catchUp
      BY <1>1, <1>4, <2>2 DEF mine
    <3>2. TimelineAt(timeline, m, e)
      BY <1>5, <1>7, <3>1, Errs
    <3> QED
      BY <1>2, <2>2, <3>2 DEF AppGoes
  <2> QED
    BY <2>1, <2>2
<1>9. PICK d : TimelineAt(timeline, m, d) /\ chat' = d /\ link' = AsksFor(m, d)
  BY <1>8
<1>10. TimelineAt(timeline, AsksFor(m, d), d) /\ Awaited(AsksFor(m, d), d)
  BY <1>9, AsksForAll
<1> QED
  BY <1>1, <1>9, <1>10
-----------------------------------------------------------------------------
(* What a chat shows is true *)
LEMMA NothingInFlight ==
    ASSUME NEW l \in TimeLinks, l.asked = <<>>, l.down = <<>>
    PROVE  InFlight(l) = {}
<1> SUFFICES ASSUME NEW r \in InFlight(l) PROVE FALSE
  OBVIOUS
<1>1. Len(l.asked) = 0 /\ Len(l.down) = 0
  OBVIOUS
<1>2. \/ \E i \in 1..Len(l.asked) : l.asked[i] = r
      \/ \E i \in 1..Len(l.down) : IsPage(l.down[i]) /\ l.down[i].request = r
  BY InFlightIs
<1>3. \A i \in 1..0 : FALSE
  OBVIOUS
<1> QED
  BY <1>1, <1>2, <1>3

\* The chat of a cache with one row, not connected
LEMMA TimelineStarts ==
    ASSUME StartRows \in Nat \ {0}, TimelineInit
    PROVE  TimelineAt(timeline, link, chat) /\ Awaited(link, chat)
<1> DEFINE t == [epoch |-> 1, last |-> StartRows]
           l == NoLink
<1>1. t \in Times /\ t.epoch = 1 /\ t.last = StartRows
  BY DEF Times
<1>2. /\ ~l.up /\ ~l.subscribed /\ l.asked = <<>> /\ l.down = <<>> /\ l \in TimeLinks
  BY DEF NoLink, TimeLinks
<1>3. timeline = t /\ link = l
  BY DEF TimelineInit
<1>4. PICK range \in {NoRange, Span(1, 1, 1)} : chat = NewChat(range)
  BY DEF TimelineInit
<1>5. /\ range \in Ranges /\ ~(range.from > 1)
      /\ \/ range = NoRange /\ Rows(range) = {}
         \/ range = Span(1, 1, 1) /\ Rows(range) = {<<1, 1>>}
  <2>1. CASE range = NoRange
    <3>1. range.from = 0 /\ range.to = 0 /\ range \in Ranges
      BY <2>1 DEF NoRange, Ranges
    <3>2. (0..0) \ {0} = {}
      OBVIOUS
    <3>3. Rows(range) = {}
      BY <3>1, <3>2 DEF Rows
    <3> QED
      BY <2>1, <3>1, <3>3
  <2>2. CASE range = Span(1, 1, 1)
    <3>1. range.epoch = 1 /\ range.from = 1 /\ range.to = 1 /\ range \in Ranges
      BY <2>2 DEF Span, Ranges
    <3>2. (1..1) \ {0} = {1}
      OBVIOUS
    <3>3. Rows(range) = {<<1, 1>>}
      BY <3>1, <3>2 DEF Rows
    <3> QED
      BY <2>2, <3>1, <3>3
  <2> QED
    BY <2>1, <2>2
<1>6. ASSUME NEW r \in Rows(range) PROVE r = <<1, 1>>
  BY <1>5
<1>7. NoCatchUp \in CatchUps /\ NoRequest \in Fetched /\ NoCatchUp.status = "none"
  BY DEF NoCatchUp, CatchUps, Fetched, NoRequest
<1>8. Rows(range) \in ChatRows /\ {} \in ChatRows
  BY <1>5 DEF ChatRows
<1>9. (range.from > 1) = FALSE
  BY <1>5
<1> DEFINE c == NewChat(range)
<1>10. /\ c \in Chats /\ c.member = "none" /\ c.catchUp = NoCatchUp /\ c.owed = NoRequest
       /\ ~c.synced /\ c.rows = Rows(range) /\ c.overlay = {} /\ c.range = range /\ ~c.older
       /\ ~c.replacing /\ c.scroll = NoRequest /\ ~c.forced
  BY <1>5, <1>7, <1>8, <1>9 DEF NewChat, Chats
<1> HIDE DEF c, l, t
<1>11. InFlight(l) = {}
  BY <1>2, NothingInFlight
<1>12. \A i \in 1..Len(l.down) : FALSE
  BY <1>2
<1>13. \A i \in 1..Len(l.asked) : FALSE
  BY <1>2
<1>14. LineOK(t, l)
  BY <1>2, <1>12, <1>13 DEF LineOK, ToldInOrder, l
<1>15. MemberOK(t, l, c)
  BY <1>2, <1>7, <1>10, <1>11 DEF MemberOK
<1>16. PagesOK(t, l, c)
  BY <1>12 DEF PagesOK
<1>17. CatchUpOK(l, c)
  BY <1>7, <1>10, <1>11 DEF CatchUpOK, NoAfter
<1>18. CompleteOK(t, l, c)
  BY <1>7, <1>10 DEF CompleteOK
<1>19. KnownOK(t, l, 1, 1)
  BY <1>1, <1>12 DEF KnownOK, UpTo
<1>20. EarlyOK(t, l, <<1, 1>>)
  BY <1>19 DEF EarlyOK
<1>21. FreshOK(t, l, c)
  <2>1. \A r \in c.rows \cup c.overlay : EarlyOK(t, l, r)
    BY <1>6, <1>10, <1>20
  <2>2. \/ c.range = NoRange /\ c.rows = {}
        \/ c.range = Span(1, 1, 1) /\ <<1, 1>> \in c.rows /\ \A r \in c.rows : r[1] = 1
    BY <1>5, <1>6, <1>10
  <2> QED
    BY <1>7, <1>10, <1>11, <2>1, <2>2 DEF FreshOK
<1>22. TimelineAt(t, l, c)
  BY <1>1, <1>2, <1>10, <1>14, <1>15, <1>16, <1>17, <1>18, <1>21 DEF TimelineAt
<1>23. Awaited(l, c)
  BY <1>7, <1>10 DEF Awaited
<1> QED
  BY <1>3, <1>4, <1>22, <1>23 DEF c

-----------------------------------------------------------------------------
\* TimelineInv holds in every state, when the chat has rows at the start
LEMMA TimelineInvHolds ==
    ASSUME StartRows # 0
    PROVE  TimelineSpec => []TimelineInv
<1>1. StartRows \in Nat \ {0} /\ PageSize \in Nat \ {0}
  BY TimelineAssumption
<1>2. TimelineInit => TimelineInv
  BY <1>1, TimelineStarts DEF TimelineInv
<1>3. TimelineInv /\ [TimelineNext]_timelineVars => TimelineInv'
  <2> SUFFICES ASSUME TimelineInv, [TimelineNext]_timelineVars, ~missed'
               PROVE  TimelineAt(timeline', link', chat') /\ Awaited(link', chat')
    BY DEF TimelineInv
  <2>1. CASE UNCHANGED timelineVars
    BY <2>1 DEF timelineVars, TimelineInv
  <2>2. CASE TimelineNext
    <3>1. ~missed
      BY <2>2 DEF TimelineNext, AppendsRow, Rewinds, AnswersRequest, Subscribes, Receives, LinkUp,
                  LinkDown, ReturnsToApp, Retries, Scrolls, RequestFails
    <3>2. TimelineAt(timeline, link, chat) /\ Awaited(link, chat)
      BY <3>1 DEF TimelineInv
    <3>3. CASE AppendsRow
      <4>1. chat' = chat
        BY <3>3 DEF AppendsRow
      <4> QED
        BY <3>2, <3>3, <4>1, AppendsRowStep
    <3>4. CASE Rewinds
      <4>1. chat' = chat
        BY <3>4 DEF Rewinds
      <4> QED
        BY <1>1, <3>2, <3>4, <4>1, RewindsStep
    <3>5. CASE AnswersRequest
      <4>1. chat' = chat
        BY <3>5 DEF AnswersRequest
      <4> QED
        BY <1>1, <3>2, <3>5, <4>1, AnswersRequestStep
    <3>6. CASE Subscribes
      <4>1. chat' = chat
        BY <3>6 DEF Subscribes
      <4> QED
        BY <3>2, <3>6, <4>1, SubscribesStep
    <3>7. CASE Receives
      BY <3>2, <3>7, ReceivesStep
    <3>8. CASE LinkUp
      BY <3>2, <3>8, LinkUpStep
    <3>9. CASE LinkDown
      BY <3>2, <3>9, LinkDownStep
    <3>10. CASE ReturnsToApp
      BY <3>2, <3>10, ReturnsToAppStep
    <3>11. CASE Retries
      BY <3>2, <3>11, RetriesStep
    <3>12. CASE Scrolls
      BY <3>2, <3>12, ScrollsStep
    <3>13. ASSUME NEW request \in InFlight(link), RequestFails(request)
           PROVE  TimelineAt(timeline', link', chat') /\ Awaited(link', chat')
      BY <3>2, <3>13, RequestFailsStep
    <3> QED
      BY <2>2, <3>3, <3>4, <3>5, <3>6, <3>7, <3>8, <3>9, <3>10, <3>11, <3>12, <3>13 DEF TimelineNext
  <2> QED
    BY <2>1, <2>2
<1> QED
  BY <1>2, <1>3, PTL DEF TimelineSpec

(***************************************************************************)
(* A chat shows one range of rows without gaps, and when the app calls it  *)
(* ready and nothing moves, it shows the rows of the daemon to the last    *)
(* one and can scroll to the first, for every page size, any rows, any     *)
(* requests lost, connections lost and rewinds (applyTimelineResponse,     *)
(* enqueueStreamEvent and startCatchUp of viewed-timeline-sync.ts)         *)
(***************************************************************************)
THEOREM ChatIsTrueHolds ==
    ASSUME StartRows # 0
    PROVE  TimelineSpec => []ChatIsTrue
<1>1. TimelineInv => ShownIsRange
  BY DEF TimelineInv, ShownIsRange, TimelineAt, SyncedOK, RangeOK
<1>2. TimelineInv => ReadyIsCurrent
  <2> SUFFICES ASSUME TimelineInv, Status = "ready", NothingMoves, chat.member = "acknowledged", ~missed
               PROVE  /\ chat.synced /\ ~chat.newer
                      /\ chat.range.to = timeline.last
                      /\ timeline.last > 0 => chat.range.epoch = timeline.epoch
                      /\ chat.range.from <= 1 \/ chat.older
    BY DEF ReadyIsCurrent
  <2>1. /\ timeline \in Times /\ link \in TimeLinks /\ chat \in Chats
        /\ MemberOK(timeline, link, chat) /\ CompleteOK(timeline, link, chat)
        /\ (chat.synced => SyncedOK(timeline, link, chat)) /\ Awaited(link, chat)
    BY DEF TimelineInv, TimelineAt
  <2>2. link.asked = <<>> /\ link.down = <<>> /\ InFlight(link) = {}
    BY <2>1, NothingInFlight DEF NothingMoves
  <2>3. ~chat.error
    <3>1. CASE chat.retrying
      BY <3>1 DEF Status
    <3>2. CASE ~chat.retrying
      BY <3>2 DEF Status
    <3> QED
      BY <3>1, <3>2
  <2>4. chat.catchUp.status = "complete"
    <3>1. chat.catchUp.status \in {"none", "running", "complete", "error"}
      BY <2>1 DEF Chats, CatchUps
    <3> QED
      BY <2>1, <2>2, <2>3, <3>1 DEF MemberOK, Awaited
  <2>5. chat.synced /\ ~chat.newer /\ Rest(timeline, link.down, 0, chat.range.epoch, chat.range.to)
    BY <2>1, <2>2, <2>4 DEF CompleteOK, Awaited
  <2>6. \A i \in 1..Len(link.down) : FALSE
    BY <2>2
  <2>7. chat.range.epoch = timeline.epoch /\ chat.range.to <= timeline.last
        /\ \A s \in Nat : ~(s > chat.range.to /\ s <= timeline.last)
    BY <2>5, <2>6 DEF Rest, Replaced, RestRows
  <2>8. timeline.last \in Nat /\ chat.range.to \in Nat /\ chat.range.from \in Nat
    BY <2>1 DEF Times, Chats, Ranges
  <2>9. chat.range.to = timeline.last
    BY <2>7, <2>8
  <2>10. chat.range.from = 1 \/ chat.older
    BY <2>1, <2>5 DEF SyncedOK, RangeOK
  <2> QED
    BY <2>5, <2>7, <2>8, <2>9, <2>10
<1> QED
  BY <1>1, <1>2, TimelineInvHolds, PTL DEF ChatIsTrue
=============================================================================
