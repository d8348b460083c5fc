----------------------------- MODULE TerminalProofs -----------------------------
(***************************************************************************)
(* A viewer of a terminal shows what the terminal printed, in order and    *)
(* once, for any number of outputs, views, losses of the connection, full  *)
(* transports and requests that time out.                                  *)
(*                                                                         *)
(* The argument numbers the boundaries between the messages that are on    *)
(* their way to the daemon: r[i] is the last output that the daemon has    *)
(* been told of when it has handled i of them.  What the screen shows, the *)
(* batches kept for it and r[0] are then chained; a replay cuts the output *)
(* at the number that the worker had reached when it took the screen, and  *)
(* what was kept and is beyond the cut is the chain from there.            *)
(***************************************************************************)
EXTENDS TerminalStream, SequenceTheorems, WellFoundedInduction, TLAPS

Among(x, s) == \E i \in 1..Len(s) : s[i] = x

LEMMA LeastNatural ==
    ASSUME NEW S \in SUBSET Nat, S # {}
    PROVE  \E n \in S : \A m \in S : n <= m
<1> DEFINE Less == OpToRel(<, Nat)
<1>1. IsWellFoundedOn(Less, Nat)
  BY NatLessThanWellFounded
<1> HIDE DEF Less
<1>2. PICK n \in S : \A m \in S : ~(<<m, n>> \in Less)
  BY <1>1, WFMin
<1>3. \A m \in Nat, k \in Nat : m < k => <<m, k>> \in Less
  BY DEF Less, OpToRel
<1>4. ASSUME NEW m \in S PROVE n <= m
  <2>1. m \in Nat /\ n \in Nat /\ ~(m < n)
    BY <1>2, <1>3
  <2> QED
    BY <2>1
<1> QED
  BY <1>4

LEMMA AppendIs ==
    ASSUME NEW S, NEW s \in Seq(S), NEW x \in S
    PROVE  /\ Append(s, x) \in Seq(S) /\ Len(Append(s, x)) = Len(s) + 1 /\ Len(s) \in Nat
           /\ \A i \in 1..Len(s) : Append(s, x)[i] = s[i]
           /\ Append(s, x)[Len(s) + 1] = x
           /\ \A y : Among(y, Append(s, x)) <=> Among(y, s) \/ y = x
<1>1. /\ Append(s, x) \in Seq(S) /\ Len(Append(s, x)) = Len(s) + 1 /\ Len(s) \in Nat
      /\ \A i \in 1..Len(s) : Append(s, x)[i] = s[i]
      /\ Append(s, x)[Len(s) + 1] = x
  OBVIOUS
<1>2. \A i \in 1..Len(s) + 1 : i \in 1..Len(s) \/ i = Len(s) + 1
  BY <1>1
<1> HIDE <1>2
<1>3. \A y : Among(y, Append(s, x)) <=> Among(y, s) \/ y = x
  <2> DEFINE t == Append(s, x)
  <2> HIDE DEF t
  <2>1. ASSUME NEW y, Among(y, t) PROVE Among(y, s) \/ y = x
    <3>1. PICK i \in 1..Len(s) + 1 : t[i] = y
      BY <1>1, <2>1 DEF Among, t
    <3> QED
      BY <1>1, <1>2, <3>1 DEF Among, t
  <2>2. ASSUME NEW y, Among(y, s) \/ y = x PROVE Among(y, t)
    <3>1. CASE Among(y, s)
      <4>1. PICK i \in 1..Len(s) : s[i] = y
        BY <3>1 DEF Among
      <4> QED
        BY <1>1, <4>1 DEF Among, t
    <3>2. CASE y = x
      BY <1>1, <3>2 DEF Among, t
    <3> QED
      BY <2>2, <3>1, <3>2
  <2> QED
    BY <2>1, <2>2 DEF t
<1> QED
  BY <1>1, <1>3

LEMMA TailIs ==
    ASSUME NEW S, NEW s \in Seq(S), s # <<>>
    PROVE  /\ Head(s) = s[1] /\ s[1] \in S /\ Among(s[1], s) /\ 1 \in 1..Len(s)
           /\ Tail(s) \in Seq(S) /\ Len(Tail(s)) = Len(s) - 1 /\ Len(s) \in Nat
           /\ \A i \in 1..Len(Tail(s)) : Tail(s)[i] = s[i + 1] /\ i + 1 \in 1..Len(s)
           /\ \A y : Among(y, Tail(s)) => Among(y, s)
<1>1. /\ Head(s) = s[1] /\ s[1] \in S /\ 1 \in 1..Len(s)
      /\ Tail(s) \in Seq(S) /\ Len(Tail(s)) = Len(s) - 1 /\ Len(s) \in Nat
      /\ \A i \in 1..Len(Tail(s)) : Tail(s)[i] = s[i + 1] /\ i + 1 \in 1..Len(s)
  OBVIOUS
<1> QED
  BY <1>1 DEF Among

\* A function over the positions of a sequence that is computed from the position before
Works(n, x, next, S, g) ==
    /\ g \in [0..n -> S] /\ g[0] = x
    /\ \A i \in 1..n : g[i] = next[i][g[i - 1]]

LEMMA StepsExist ==
    ASSUME NEW S, NEW n \in Nat, NEW x \in S, NEW next \in [1..n -> [S -> S]]
    PROVE  \E g : Works(n, x, next, S, g)
<1> DEFINE W(m, g) == Works(m, x, next, S, g)
           Bad == {m \in Nat : m <= n /\ ~ \E g : W(m, g)}
<1>1. Bad = {}
  <2>1. SUFFICES ASSUME Bad # {} PROVE FALSE
    OBVIOUS
  <2>2. PICK m \in Bad : \A k \in Bad : m <= k
    BY <2>1, LeastNatural
  <2>3. m \in 0..n /\ m <= n /\ ~ \E g : W(m, g)
    BY <2>2
  <2>4. CASE m = 0
    <3>1. W(0, [i \in 0..0 |-> x])
      BY DEF Works
    <3> QED
      BY <2>3, <2>4, <3>1
  <2>5. CASE m # 0
    <3>1. m - 1 \in 0..n /\ m - 1 \in Nat /\ m \in 1..n
      BY <2>3, <2>5
    <3>2. m - 1 \notin Bad /\ m - 1 <= n
      <4>1. ~(m <= m - 1) /\ m - 1 <= n
        BY <3>1
      <4> HIDE DEF Bad
      <4> QED
        BY <2>2, <4>1
    <3>3. PICK h : W(m - 1, h)
      <4> HIDE DEF W
      <4> QED
        BY <3>1, <3>2
    <3> DEFINE y == h[m - 1]
               g == [i \in 0..m |-> IF i = m THEN next[m][y] ELSE h[i]]
    <3>4. y \in S /\ next[m][y] \in S
      <4>1. y \in S /\ next[m] \in [S -> S]
        BY <3>1, <3>3 DEF Works
      <4> QED
        BY <4>1
    <3>5. \A i \in 0..m : i # m => i \in 0..m - 1
      BY <3>1
    <3>6. g \in [0..m -> S]
      BY <3>3, <3>4, <3>5 DEF Works
    <3>7. g[0] = x /\ g[m] = next[m][g[m - 1]]
      <4>1. 0 \in 0..m /\ m \in 0..m /\ m - 1 \in 0..m /\ m - 1 # m /\ 0 # m
        BY <2>5, <3>1
      <4>2. g[0] = h[0] /\ g[m - 1] = y /\ g[m] = next[m][y]
        BY <4>1
      <4> QED
        BY <3>3, <4>2 DEF Works
    <3>8. \A i \in 1..m : i # m => g[i] = next[i][g[i - 1]]
      <4> SUFFICES ASSUME NEW i \in 1..m, i # m PROVE g[i] = next[i][g[i - 1]]
        OBVIOUS
      <4>1. i \in 1..m - 1 /\ i - 1 # m /\ i \in 0..m /\ i - 1 \in 0..m
        BY <3>1
      <4>2. g[i] = h[i] /\ g[i - 1] = h[i - 1]
        BY <4>1
      <4> QED
        BY <3>3, <4>1, <4>2 DEF Works
    <3> HIDE DEF g, y
    <3>9. W(m, g)
      BY <3>6, <3>7, <3>8 DEF Works
    <3> QED
      BY <2>3, <3>9
  <2> QED
    BY <2>4, <2>5
<1>2. n \notin Bad /\ n <= n
  <2>1. n <= n
    OBVIOUS
  <2> HIDE DEF Bad
  <2> QED
    BY <1>1, <2>1
<1>3. \E g : W(n, g)
  <2> HIDE DEF W
  <2> QED
    BY <1>2
<1> QED
  BY <1>3

-----------------------------------------------------------------------------
(* What the app draws *)

Screen == [shown: Outputs, exact: BOOLEAN, replaying: BOOLEAN, closed: BOOLEAN]

\* Batches that follow one another from an output up to another
Chain(from, s, to) ==
    /\ s = <<>> => from = to
    /\ s # <<>> => s[1].first = from + 1 /\ s[Len(s)].last = to
    /\ \A i \in 1..Len(s) - 1 : s[i + 1].first = s[i].last + 1

LEMMA DrawnIs ==
    ASSUME NEW s \in Screen, NEW b \in Chunk
    PROVE  /\ Drawn(s, b) \in Screen
           /\ Drawn(s, b).replaying = s.replaying /\ Drawn(s, b).closed = s.closed
           /\ s.exact /\ ~s.replaying /\ b.first = s.shown + 1 =>
                 Drawn(s, b).exact /\ Drawn(s, b).shown = b.last
           /\ Drawn(s, b).exact => Drawn(s, b).shown = b.last
<1>1. b.last \in Outputs
  BY StreamAssumption DEF Chunk, Outputs
<1> QED
  BY <1>1 DEF Drawn, Screen

LEMMA DrawStepsAre ==
    ASSUME NEW s \in Screen, NEW t \in Seq(Chunk)
    PROVE  /\ DrawSteps(s, t) \in [0..Len(t) -> Screen]
           /\ DrawSteps(s, t)[0] = s
           /\ \A i \in 1..Len(t) : DrawSteps(s, t)[i] = Drawn(DrawSteps(s, t)[i - 1], t[i])
<1> DEFINE n == Len(t)
           next == [i \in 1..n |-> [u \in Screen |-> Drawn(u, t[i])]]
           f == DrawSteps(s, t)
<1>1. n \in Nat /\ \A i \in 1..n : t[i] \in Chunk
  OBVIOUS
<1>2. \A y \in Screen, i \in 1..n : next[i][y] = Drawn(y, t[i])
  OBVIOUS
<1>40. next \in [1..n -> [Screen -> Screen]]
  BY <1>1, DrawnIs
<1> HIDE DEF n, next
<1>3. PICK g : Works(n, s, next, Screen, g)
  <2> DEFINE S == Screen
  <2>1. next \in [1..n -> [S -> S]]
    BY <1>40
  <2>2. s \in S
    OBVIOUS
  <2> HIDE DEF S
  <2>3. \E g : Works(n, s, next, S, g)
    BY <1>1, <2>1, <2>2, StepsExist
  <2> QED
    BY <2>3 DEF S
<1>4. \A i \in 0..n : g[i] = IF i = 0 THEN s ELSE Drawn(g[i - 1], t[i])
  <2> SUFFICES ASSUME NEW i \in 0..n, i # 0 PROVE g[i] = Drawn(g[i - 1], t[i])
    BY <1>3 DEF Works
  <2>1. i \in 1..n /\ i - 1 \in 0..n
    BY <1>1
  <2>2. g[i] = next[i][g[i - 1]] /\ g[i - 1] \in Screen
    BY <1>3, <2>1 DEF Works
  <2> QED
    BY <1>2, <2>1, <2>2
<1>5. g = [i \in 0..n |-> IF i = 0 THEN s ELSE Drawn(g[i - 1], t[i])]
  BY <1>3, <1>4 DEF Works
<1>6. f = [i \in 0..n |-> IF i = 0 THEN s ELSE Drawn(f[i - 1], t[i])]
  BY <1>5 DEF DrawSteps, n
<1> HIDE DEF f
<1>7. f[0] = s /\ \A i \in 1..n : f[i] = Drawn(f[i - 1], t[i])
  <2>1. 0 \in 0..n /\ \A i \in 1..n : i \in 0..n /\ i # 0
    BY <1>1
  <2> QED
    BY <1>6, <2>1
<1>8. DOMAIN f = 0..n
  BY <1>6
<1>9. \A i \in 0..n : f[i] \in Screen
  <2> DEFINE Bad == {i \in Nat : i <= n /\ f[i] \notin Screen}
  <2>1. SUFFICES ASSUME Bad # {} PROVE FALSE
    OBVIOUS
  <2>2. PICK i \in Bad : \A k \in Bad : i <= k
    BY <2>1, LeastNatural
  <2>3. i # 0
    BY <2>2, <1>7
  <2>4. i \in 1..n /\ i - 1 \in 0..n /\ ~(i <= i - 1)
    BY <2>2, <2>3, <1>1
  <2>5. f[i - 1] \in Screen
    BY <2>2, <2>4
  <2> QED
    BY <2>2, <2>4, <2>5, <1>1, <1>7, DrawnIs
<1>10. f \in [0..n -> Screen]
  BY <1>6, <1>9
<1> QED
  BY <1>7, <1>10 DEF f, n

\* Whatever is drawn
LEMMA DrawnAllIs ==
    ASSUME NEW s \in Screen, NEW t \in Seq(Chunk)
    PROVE  /\ DrawnAll(s, t) \in Screen
           /\ DrawnAll(s, t).replaying = s.replaying /\ DrawnAll(s, t).closed = s.closed
           /\ t = <<>> => DrawnAll(s, t) = s
           /\ t # <<>> /\ DrawnAll(s, t).exact => DrawnAll(s, t).shown = t[Len(t)].last
<1>0. \A u \in Screen, b \in Chunk :
          /\ Drawn(u, b) \in Screen
          /\ Drawn(u, b).replaying = u.replaying /\ Drawn(u, b).closed = u.closed
          /\ u.exact /\ ~u.replaying /\ b.first = u.shown + 1 =>
                 Drawn(u, b).exact /\ Drawn(u, b).shown = b.last
          /\ Drawn(u, b).exact => Drawn(u, b).shown = b.last
  BY DrawnIs
<1> DEFINE f == DrawSteps(s, t)
<1>1. f \in [0..Len(t) -> Screen] /\ f[0] = s /\ \A i \in 1..Len(t) : f[i] = Drawn(f[i - 1], t[i])
  BY DrawStepsAre
<1>2. DrawnAll(s, t) = f[Len(t)] /\ Len(t) \in Nat /\ (t = <<>> => Len(t) = 0)
      /\ \A i \in 1..Len(t) : t[i] \in Chunk
  BY DEF DrawnAll
<1> HIDE DEF f
<1>3. \A i \in 0..Len(t) : f[i].replaying = s.replaying /\ f[i].closed = s.closed
  <2> DEFINE Bad == {i \in Nat : i <= Len(t) /\ ~(f[i].replaying = s.replaying /\ f[i].closed = s.closed)}
  <2>1. SUFFICES ASSUME Bad # {} PROVE FALSE
    OBVIOUS
  <2>2. PICK i \in Bad : \A k \in Bad : i <= k
    BY <2>1, <1>2, LeastNatural
  <2>3. i # 0
    BY <2>2, <1>1
  <2>4. i \in 1..Len(t) /\ i - 1 \in 0..Len(t) /\ ~(i <= i - 1)
    BY <2>2, <2>3, <1>2
  <2>5. f[i - 1].replaying = s.replaying /\ f[i - 1].closed = s.closed /\ f[i - 1] \in Screen
    BY <2>2, <2>4, <1>1
  <2>6. f[i] = Drawn(f[i - 1], t[i]) /\ t[i] \in Chunk
    BY <2>4, <1>1, <1>2
  <2>7. f[i].replaying = f[i - 1].replaying /\ f[i].closed = f[i - 1].closed
    <3> DEFINE u == f[i - 1]
               b == t[i]
    <3>1. u \in Screen /\ b \in Chunk /\ f[i] = Drawn(u, b)
      BY <2>5, <2>6
    <3> HIDE DEF u, b
    <3>2. Drawn(u, b).replaying = u.replaying /\ Drawn(u, b).closed = u.closed
      BY ONLY <3>1, <1>0
    <3> QED
      BY <3>1, <3>2 DEF u
  <2> QED
    BY <2>2, <2>5, <2>7
<1>4. t # <<>> => Len(t) \in 1..Len(t) /\ Len(t) - 1 \in 0..Len(t)
  BY <1>2
<1>5. ASSUME t # <<>>, f[Len(t)].exact PROVE f[Len(t)].shown = t[Len(t)].last
  <2>1. /\ f[Len(t)] = Drawn(f[Len(t) - 1], t[Len(t)])
        /\ f[Len(t) - 1] \in Screen /\ t[Len(t)] \in Chunk
    BY <1>1, <1>2, <1>4, <1>5
  <2> QED
    BY <1>0, <1>5, <2>1
<1> QED
  BY <1>1, <1>2, <1>3, <1>5

\* A chain from what is shown
LEMMA DrawnChain ==
    ASSUME NEW s \in Screen, NEW t \in Seq(Chunk), NEW to, s.exact, ~s.replaying,
           Chain(s.shown, t, to)
    PROVE  DrawnAll(s, t).exact /\ DrawnAll(s, t).shown = to
<1>0. \A u \in Screen, b \in Chunk :
          /\ Drawn(u, b) \in Screen
          /\ Drawn(u, b).replaying = u.replaying
          /\ u.exact /\ ~u.replaying /\ b.first = u.shown + 1 =>
                 Drawn(u, b).exact /\ Drawn(u, b).shown = b.last
          /\ Drawn(u, b).exact => Drawn(u, b).shown = b.last
  BY DrawnIs
<1> DEFINE f == DrawSteps(s, t)
<1>1. f \in [0..Len(t) -> Screen] /\ f[0] = s /\ \A i \in 1..Len(t) : f[i] = Drawn(f[i - 1], t[i])
  BY DrawStepsAre
<1>2. DrawnAll(s, t) = f[Len(t)] /\ Len(t) \in Nat /\ (t = <<>> <=> Len(t) = 0)
      /\ \A i \in 1..Len(t) : t[i] \in Chunk
  BY DEF DrawnAll
<1> HIDE DEF f
<1> DEFINE Good(i) == /\ f[i].exact /\ ~f[i].replaying
                      /\ f[i].shown = IF i = 0 THEN s.shown ELSE t[i].last
<1>3. \A i \in 0..Len(t) : Good(i)
  <2> DEFINE Bad == {i \in Nat : i <= Len(t) /\ ~Good(i)}
  <2>1. SUFFICES ASSUME Bad # {} PROVE FALSE
    OBVIOUS
  <2>2. PICK i \in Bad : \A k \in Bad : i <= k
    BY <2>1, <1>2, LeastNatural
  <2>3. i # 0
    BY <2>2, <1>1
  <2>4. i \in 1..Len(t) /\ i - 1 \in 0..Len(t) /\ ~(i <= i - 1)
    BY <2>2, <2>3, <1>2
  <2>5. Good(i - 1) /\ f[i - 1] \in Screen
    BY <2>2, <2>4, <1>1
  <2>6. t[i].first = f[i - 1].shown + 1
    <3>1. CASE i = 1
      BY <2>5, <3>1, <1>2, <2>4 DEF Chain
    <3>2. CASE i # 1
      <4>1. i - 1 \in 1..Len(t) - 1 /\ i - 1 # 0 /\ i - 1 + 1 = i
        BY <2>4, <3>2, <1>2
      <4>2. t[i - 1 + 1].first = t[i - 1].last + 1
        BY <4>1 DEF Chain
      <4> QED
        BY <2>5, <4>1, <4>2
    <3> QED
      BY <3>1, <3>2
  <2>7. f[i] = Drawn(f[i - 1], t[i]) /\ t[i] \in Chunk
    BY <2>4, <1>1, <1>2
  <2>8. f[i].exact /\ f[i].shown = t[i].last /\ ~f[i].replaying
    BY <2>5, <2>6, <2>7, <1>0
  <2> QED
    BY <2>2, <2>3, <2>8
<1>4. Good(Len(t)) /\ (Len(t) = 0 => s.shown = to) /\ (Len(t) # 0 => t[Len(t)].last = to)
  BY <1>2, <1>3 DEF Chain
<1> QED
  BY <1>2, <1>4
-----------------------------------------------------------------------------
(* Live output behind a replay *)

\* Of the batches, those that the replay does not have are a chain from its cut
Beyond(cut, s, to) ==
    \E k \in 0..Len(s) :
       /\ \A i \in 1..k : s[i].last <= cut
       /\ \A i \in k + 1..Len(s) : s[i].last > cut
       /\ IF k = Len(s) THEN to <= cut
          ELSE /\ s[k + 1].first = cut + 1 /\ s[Len(s)].last = to
               /\ \A i \in k + 1..Len(s) - 1 : s[i + 1].first = s[i].last + 1

LEMMA BeyondStepsAre ==
    ASSUME NEW cut \in Outputs, NEW s \in Seq(Chunk)
    PROVE  /\ BeyondSteps(s, cut)[0] = <<>>
           /\ \A i \in 0..Len(s) : BeyondSteps(s, cut)[i] \in Seq(Chunk)
           /\ \A i \in 1..Len(s) :
                 BeyondSteps(s, cut)[i] = IF s[i].last > cut
                                          THEN Append(BeyondSteps(s, cut)[i - 1], s[i])
                                          ELSE BeyondSteps(s, cut)[i - 1]
<1> DEFINE n == Len(s)
           S == Seq(Chunk)
           Next1(u, i) == IF s[i].last > cut THEN Append(u, s[i]) ELSE u
           next == [i \in 1..n |-> [u \in S |-> Next1(u, i)]]
           f == BeyondSteps(s, cut)
           e == <<>>
<1>1. n \in Nat /\ \A i \in 1..n : s[i] \in Chunk
  OBVIOUS
<1>2. \A u \in S, i \in 1..n : Next1(u, i) \in S
  BY <1>1
<1>3. e \in S
  OBVIOUS
<1> HIDE DEF n, S, Next1, e
<1>4. next \in [1..n -> [S -> S]] /\ \A u \in S, i \in 1..n : next[i][u] = Next1(u, i)
  BY <1>2
<1> HIDE DEF next
<1>5. PICK g : Works(n, e, next, S, g)
  BY <1>1, <1>3, <1>4, StepsExist
<1>6. \A i \in 0..n : g[i] = IF i = 0 THEN e ELSE Next1(g[i - 1], i)
  <2> SUFFICES ASSUME NEW i \in 0..n, i # 0 PROVE g[i] = Next1(g[i - 1], i)
    BY <1>5 DEF Works
  <2>1. i \in 1..n /\ i - 1 \in 0..n
    BY <1>1
  <2>2. g[i] = next[i][g[i - 1]] /\ g[i - 1] \in S
    BY <1>5, <2>1 DEF Works
  <2> QED
    BY <1>4, <2>1, <2>2
<1>7. g = [i \in 0..n |-> IF i = 0 THEN e ELSE Next1(g[i - 1], i)]
  BY <1>5, <1>6 DEF Works
<1>8. f = [i \in 0..n |-> IF i = 0 THEN e ELSE Next1(f[i - 1], i)]
  BY <1>7 DEF BeyondSteps, n, e, Next1
<1> HIDE DEF f
<1>9. f[0] = e /\ \A i \in 1..n : f[i] = Next1(f[i - 1], i)
  <2>1. 0 \in 0..n /\ \A i \in 1..n : i \in 0..n /\ i # 0
    BY <1>1
  <2> QED
    BY <1>8, <2>1
<1>10. \A i \in 0..n : f[i] \in S
  <2> DEFINE Bad == {i \in Nat : i <= n /\ f[i] \notin S}
  <2>1. SUFFICES ASSUME Bad # {} PROVE FALSE
    OBVIOUS
  <2>2. PICK i \in Bad : \A k \in Bad : i <= k
    BY <2>1, LeastNatural
  <2>3. i # 0
    BY <2>2, <1>3, <1>9
  <2>4. i \in 1..n /\ i - 1 \in 0..n /\ ~(i <= i - 1)
    BY <2>2, <2>3, <1>1
  <2>5. f[i - 1] \in S
    BY <2>2, <2>4
  <2> QED
    BY <2>2, <2>4, <2>5, <1>2, <1>9
<1> QED
  BY <1>9, <1>10 DEF n, S, Next1, f, e

\* What is dropped is what the replay has
LEMMA BeyondCutIs ==
    ASSUME NEW cut \in Outputs, NEW s \in Seq(Chunk), NEW to \in Nat, cut <= to,
           Beyond(cut, s, to)
    PROVE  BeyondCut(s, cut) \in Seq(Chunk) /\ Chain(cut, BeyondCut(s, cut), to)
<1> DEFINE f == BeyondSteps(s, cut)
<1>1. /\ f[0] = <<>> /\ \A i \in 0..Len(s) : f[i] \in Seq(Chunk)
      /\ \A i \in 1..Len(s) : f[i] = IF s[i].last > cut THEN Append(f[i - 1], s[i]) ELSE f[i - 1]
  BY BeyondStepsAre
<1>2. PICK k \in 0..Len(s) :
       /\ \A i \in 1..k : s[i].last <= cut
       /\ \A i \in k + 1..Len(s) : s[i].last > cut
       /\ IF k = Len(s) THEN to <= cut
          ELSE /\ s[k + 1].first = cut + 1 /\ s[Len(s)].last = to
               /\ \A i \in k + 1..Len(s) - 1 : s[i + 1].first = s[i].last + 1
  BY DEF Beyond
<1>3. Len(s) \in Nat /\ k \in Nat /\ cut \in Nat /\ \A i \in 1..Len(s) : s[i] \in Chunk
  BY StreamAssumption DEF Outputs
<1>4. BeyondCut(s, cut) = f[Len(s)]
  BY DEF BeyondCut
<1>5. \A i \in 1..Len(s) : s[i].last \in Nat
  BY <1>3, StreamAssumption DEF Chunk
<1> HIDE DEF f
<1> DEFINE Good(i) == /\ Len(f[i]) = IF i <= k THEN 0 ELSE i - k
                      /\ \A j \in 1..Len(f[i]) : f[i][j] = s[k + j]
<1>6. \A i \in 0..Len(s) : Good(i)
  <2> DEFINE Bad == {i \in Nat : i <= Len(s) /\ ~Good(i)}
  <2>1. SUFFICES ASSUME Bad # {} PROVE FALSE
    <3>1. \A i \in 0..Len(s) : i \in Nat /\ i <= Len(s)
      BY <1>3
    <3> HIDE DEF Good
    <3> QED
      BY <3>1
  <2>2. PICK i \in Bad : \A m \in Bad : i <= m
    BY <2>1, LeastNatural
  <2>3. i # 0
    <3>1. Good(0)
      BY <1>1, <1>3
    <3> QED
      BY <2>2, <3>1
  <2>4. i \in 1..Len(s) /\ i - 1 \in 0..Len(s) /\ ~(i <= i - 1) /\ i - 1 \in Nat /\ i - 1 <= Len(s)
    BY <2>2, <2>3, <1>3
  <2>5. Good(i - 1)
    <3> HIDE DEF Good
    <3> QED
      BY <2>2, <2>4
  <2> DEFINE u == f[i - 1]
             b == s[i]
  <2>6. u \in Seq(Chunk) /\ b \in Chunk /\ f[i] = IF b.last > cut THEN Append(u, b) ELSE u
    BY <1>1, <1>3, <2>4
  <2>7. CASE i <= k
    <3>1. i \in 1..k /\ ~(b.last > cut) /\ i - 1 <= k
      BY <1>2, <1>3, <1>5, <2>4, <2>7
    <3>2. f[i] = u
      BY <2>6, <3>1
    <3> QED
      BY <2>2, <2>5, <2>7, <3>1, <3>2
  <2>8. CASE ~(i <= k)
    <3>1. i \in k + 1..Len(s) /\ b.last > cut
      BY <1>2, <1>3, <2>4, <2>8
    <3>2. Len(u) = i - 1 - k /\ \A j \in 1..Len(u) : u[j] = s[k + j]
      <4>1. i - 1 <= k => i - 1 - k = 0
        BY <1>3, <2>4, <2>8
      <4> QED
        BY <2>5, <4>1
    <3> HIDE DEF u, b
    <3>3. /\ f[i] = Append(u, b) /\ Len(f[i]) = Len(u) + 1
          /\ \A j \in 1..Len(u) : f[i][j] = u[j]
          /\ f[i][Len(u) + 1] = b
      BY <2>6, <3>1
    <3>4. Len(f[i]) = i - k
      BY <3>2, <3>3, <1>3, <2>4
    <3>5. ASSUME NEW j \in 1..Len(f[i]) PROVE f[i][j] = s[k + j]
      <4>1. CASE j = Len(u) + 1
        <5>1. k + j = i
          BY <4>1, <3>2, <1>3, <2>4
        <5> QED
          BY <4>1, <5>1, <3>3 DEF b
      <4>2. CASE j # Len(u) + 1
        <5>1. j \in 1..Len(u)
          BY <4>2, <3>3, <3>2, <1>3, <2>4
        <5> QED
          BY <5>1, <3>2, <3>3
      <4> QED
        BY <4>1, <4>2
    <3> QED
      BY <2>2, <2>8, <3>4, <3>5
  <2> QED
    BY <2>7, <2>8
<1>7. f[Len(s)] \in Seq(Chunk) /\ Good(Len(s))
  BY <1>1, <1>3, <1>6
<1> DEFINE t == f[Len(s)]
<1>8. t \in Seq(Chunk) /\ Len(t) = (IF Len(s) <= k THEN 0 ELSE Len(s) - k)
      /\ \A j \in 1..Len(t) : t[j] = s[k + j]
  BY <1>7
<1> HIDE DEF t
<1>9. CASE k = Len(s)
  <2>1. Len(t) = 0 /\ to = cut
    BY <1>2, <1>3, <1>8, <1>9
  <2>2. t = <<>>
    BY <1>8, <2>1
  <2> QED
    BY <1>4, <1>8, <2>1, <2>2 DEF Chain, t
<1>10. CASE k # Len(s)
  <2>1. Len(t) = Len(s) - k /\ Len(t) \in Nat /\ Len(t) # 0 /\ k < Len(s) /\ 1 \in 1..Len(t) /\ Len(t) \in 1..Len(t)
    BY <1>3, <1>8, <1>10
  <2>2. t[1].first = cut + 1 /\ t[Len(t)].last = to
    <3>1. t[1] = s[k + 1] /\ t[Len(t)] = s[k + Len(t)] /\ k + Len(t) = Len(s)
      <4>1. k + Len(t) = Len(s)
        BY <1>3, <2>1
      <4>2. \A j \in 1..Len(t) : t[j] = s[k + j]
        BY <1>8
      <4>3. t[1] = s[k + 1] /\ t[Len(t)] = s[k + Len(t)]
        BY ONLY <2>1, <4>2
      <4> QED
        BY <4>1, <4>3
    <3> QED
      BY <1>2, <1>10, <3>1
  <2>3. ASSUME NEW j \in 1..Len(t) - 1 PROVE t[j + 1].first = t[j].last + 1
    <3>1. /\ j \in 1..Len(t) /\ j + 1 \in 1..Len(t) /\ k + j \in k + 1..Len(s) - 1
          /\ k + (j + 1) = k + j + 1
      BY <1>3, <2>1
    <3>2. s[k + j + 1].first = s[k + j].last + 1
      BY <1>2, <1>10, <3>1
    <3> QED
      BY <1>8, <3>1, <3>2
  <2> QED
    BY <1>4, <1>8, <2>1, <2>2, <2>3 DEF Chain, t
<1> QED
  BY <1>9, <1>10

\* One more batch arrives: it does not straddle the cut
LEMMA BeyondAppend ==
    ASSUME NEW cut \in Nat, NEW s \in Seq(Chunk), NEW to \in Nat, NEW b \in Chunk,
           Beyond(cut, s, to), b.first = to + 1, to < b.last, b.last <= cut \/ cut <= to
    PROVE  Beyond(cut, Append(s, b), b.last)
<1> DEFINE t == Append(s, b)
<1>1. /\ Len(t) = Len(s) + 1 /\ Len(s) \in Nat /\ t[Len(s) + 1] = b
      /\ \A i \in 1..Len(s) : t[i] = s[i]
  OBVIOUS
<1>2. PICK k \in 0..Len(s) :
       /\ \A i \in 1..k : s[i].last <= cut
       /\ \A i \in k + 1..Len(s) : s[i].last > cut
       /\ IF k = Len(s) THEN to <= cut
          ELSE /\ s[k + 1].first = cut + 1 /\ s[Len(s)].last = to
               /\ \A i \in k + 1..Len(s) - 1 : s[i + 1].first = s[i].last + 1
  BY DEF Beyond
<1>3. k \in Nat /\ b.last \in Nat /\ \A i \in 1..Len(s) + 1 : i \in 1..Len(s) \/ i = Len(s) + 1
  <2>1. b.last \in 1..MaxOutput /\ MaxOutput \in Nat
    BY StreamAssumption DEF Chunk
  <2>2. b.last \in Nat
    BY <2>1
  <2> QED
    BY <1>1, <2>2
<1> HIDE DEF t
<1>4. CASE k = Len(s)
  <2>1. CASE b.last <= cut
    <3>1. \A i \in 1..Len(t) : t[i].last <= cut
      BY <1>1, <1>2, <1>3, <1>4, <2>1
    <3>2. Len(t) \in 0..Len(t) /\ \A i \in Len(t) + 1..Len(t) : FALSE
      BY <1>1
    <3> QED
      BY <2>1, <3>1, <3>2 DEF Beyond, t
  <2>2. CASE ~(b.last <= cut)
    <3>1. to = cut /\ b.first = cut + 1 /\ b.last > cut
      BY <1>2, <1>3, <1>4, <2>2
    <3>2. /\ k \in 0..Len(t) /\ k # Len(t) /\ \A i \in 1..k : t[i].last <= cut
          /\ \A i \in k + 1..Len(t) : i = Len(s) + 1
          /\ \A i \in k + 1..Len(t) - 1 : FALSE
      BY <1>1, <1>2, <1>3, <1>4
    <3>3. t[k + 1] = b /\ t[Len(t)] = b
      BY <1>1, <1>4
    <3>4. \A i \in k + 1..Len(t) : t[i].last > cut
      BY <1>1, <3>1, <3>2
    <3> QED
      BY <3>1, <3>2, <3>3, <3>4 DEF Beyond, t
  <2> QED
    BY <2>1, <2>2
<1>5. CASE k # Len(s)
  <2>1. s[k + 1].first = cut + 1 /\ s[Len(s)].last = to /\ s[Len(s)].last > cut
    BY <1>1, <1>2, <1>3, <1>5
  <2>2. /\ k \in 0..Len(t) /\ k # Len(t) /\ \A i \in 1..k : t[i].last <= cut
        /\ t[k + 1].first = cut + 1 /\ t[Len(t)].last = b.last
    <3>1. /\ k \in 0..Len(t) /\ k # Len(t) /\ k + 1 \in 1..Len(s)
          /\ \A i \in 1..k : i \in 1..Len(s)
      BY <1>1, <1>3, <1>5
    <3> QED
      BY <1>1, <1>2, <2>1, <3>1
  <2>3. \A i \in k + 1..Len(t) : t[i].last > cut
    BY <1>1, <1>2, <1>3, <2>1
  <2>4. ASSUME NEW i \in k + 1..Len(t) - 1 PROVE t[i + 1].first = t[i].last + 1
    <3>1. CASE i = Len(s)
      BY <1>1, <1>3, <2>1, <3>1
    <3>2. CASE i # Len(s)
      <4>1. i \in k + 1..Len(s) - 1 /\ i \in 1..Len(s) /\ i + 1 \in 1..Len(s)
        BY <1>1, <1>3, <3>2
      <4> QED
        BY <1>1, <1>2, <1>5, <4>1
    <3> QED
      BY <3>1, <3>2
  <2> QED
    BY <2>2, <2>3, <2>4 DEF Beyond, t
<1> QED
  BY <1>4, <1>5

LEMMA ChainAppend ==
    ASSUME NEW from, NEW s \in Seq(Chunk), NEW to, NEW b \in Chunk,
           Chain(from, s, to), b.first = to + 1
    PROVE  Chain(from, Append(s, b), b.last)
<1> DEFINE t == Append(s, b)
<1>1. /\ Len(t) = Len(s) + 1 /\ Len(s) \in Nat /\ t[Len(s) + 1] = b /\ t # <<>>
      /\ \A i \in 1..Len(s) : t[i] = s[i]
      /\ s = <<>> <=> Len(s) = 0
  OBVIOUS
<1> HIDE DEF t
<1>2. t[1].first = from + 1
  <2>1. CASE s = <<>>
    BY <1>1, <2>1 DEF Chain
  <2>2. CASE s # <<>>
    BY <1>1, <2>2 DEF Chain
  <2> QED
    BY <2>1, <2>2
<1>3. ASSUME NEW i \in 1..Len(t) - 1 PROVE t[i + 1].first = t[i].last + 1
  <2>1. CASE i = Len(s)
    BY <1>1, <2>1 DEF Chain
  <2>2. CASE i # Len(s)
    <3>1. i \in 1..Len(s) - 1 /\ i \in 1..Len(s) /\ i + 1 \in 1..Len(s)
      BY <1>1, <2>2
    <3> QED
      BY <1>1, <3>1 DEF Chain
  <2> QED
    BY <2>1, <2>2
<1> QED
  BY <1>1, <1>2, <1>3 DEF Chain, t
-----------------------------------------------------------------------------
(* The outputs between the worker and the daemon *)

\* r[i] is what the daemon has been told of when it has handled i of the messages
Flow(s, sent, r) ==
    /\ DOMAIN r = 0..Len(s) /\ \A i \in 0..Len(s) : r[i] \in Nat
    /\ r[Len(s)] = sent
    /\ \A i, j \in 0..Len(s) : i <= j => r[i] <= r[j]
    /\ \A i \in 1..Len(s) :
          IF s[i].kind = "output"
          THEN s[i].first = r[i - 1] + 1 /\ s[i].last = r[i] /\ r[i - 1] < r[i]
          ELSE r[i] = r[i - 1]

LEMMA FlowAppend ==
    ASSUME NEW s \in Seq(WorkerMessage), NEW sent \in Nat, NEW r, Flow(s, sent, r),
           NEW m \in WorkerMessage, NEW new \in Nat,
           IF m.kind = "output" THEN m.first = sent + 1 /\ m.last = new /\ sent < new
           ELSE new = sent
    PROVE  \E r2 : Flow(Append(s, m), new, r2) /\ \A i \in 0..Len(s) : r2[i] = r[i]
<1> DEFINE t == Append(s, m)
           n == Len(s)
           r2 == [i \in 0..n + 1 |-> IF i = n + 1 THEN new ELSE r[i]]
<1>1. /\ Len(t) = n + 1 /\ n \in Nat /\ t[n + 1] = m
      /\ \A i \in 1..n : t[i] = s[i]
  OBVIOUS
<1>2. /\ \A i \in 0..n : r[i] \in Nat
      /\ r[n] = sent /\ \A i, j \in 0..n : i <= j => r[i] <= r[j]
      /\ \A i \in 1..n : IF s[i].kind = "output"
                         THEN s[i].first = r[i - 1] + 1 /\ s[i].last = r[i] /\ r[i - 1] < r[i]
                         ELSE r[i] = r[i - 1]
  BY DEF Flow
<1> HIDE DEF t, n
<1>3. \A i \in 0..n + 1 : i # n + 1 => i \in 0..n
  BY <1>1
<1>4. r2[n + 1] = new /\ \A i \in 0..n : r2[i] = r[i]
  BY <1>1
<1>5. DOMAIN r2 = 0..n + 1
  OBVIOUS
<1> HIDE DEF r2
<1>6. \A i \in 0..n + 1 : r2[i] \in Nat
  BY <1>2, <1>3, <1>4
<1>7. \A i, j \in 0..n + 1 : i <= j => r2[i] <= r2[j]
  <2> SUFFICES ASSUME NEW i \in 0..n + 1, NEW j \in 0..n + 1, i <= j PROVE r2[i] <= r2[j]
    OBVIOUS
  <2>1. \A k \in 0..n : r[k] <= new
    <3> SUFFICES ASSUME NEW k \in 0..n PROVE r[k] <= new
      OBVIOUS
    <3>1. n \in 0..n /\ k <= n
      BY <1>1
    <3>2. r[k] <= r[n] /\ r[k] \in Nat
      BY <1>2, <3>1
    <3> QED
      BY <1>2, <3>2
  <2>2. CASE j = n + 1
    BY <1>3, <1>4, <2>1, <2>2
  <2>3. CASE j # n + 1
    <3>1. j \in 0..n /\ i \in 0..n
      BY <1>1, <2>3
    <3> QED
      BY <1>2, <1>4, <3>1
  <2> QED
    BY <2>2, <2>3
<1>8. ASSUME NEW i \in 1..n + 1
      PROVE  IF t[i].kind = "output"
             THEN t[i].first = r2[i - 1] + 1 /\ t[i].last = r2[i] /\ r2[i - 1] < r2[i]
             ELSE r2[i] = r2[i - 1]
  <2>1. CASE i = n + 1
    <3>1. i - 1 = n /\ n \in 0..n
      BY <1>1, <2>1
    <3> QED
      BY <1>1, <1>2, <1>4, <2>1, <3>1
  <2>2. CASE i # n + 1
    <3>1. i \in 1..n /\ i \in 0..n /\ i - 1 \in 0..n
      BY <1>1, <2>2
    <3> QED
      BY <1>1, <1>2, <1>4, <3>1
  <2> QED
    BY <2>1, <2>2
<1>9. Flow(t, new, r2)
  BY <1>1, <1>4, <1>5, <1>6, <1>7, <1>8 DEF Flow
<1> QED
  BY <1>4, <1>9 DEF t, n

LEMMA FlowTail ==
    ASSUME NEW s \in Seq(WorkerMessage), s # <<>>, NEW sent, NEW r, Flow(s, sent, r)
    PROVE  \E r2 : Flow(Tail(s), sent, r2) /\ \A i \in 0..Len(s) - 1 : r2[i] = r[i + 1]
<1> DEFINE t == Tail(s)
           n == Len(s) - 1
           r2 == [i \in 0..n |-> r[i + 1]]
<1>1. /\ Len(t) = n /\ n \in Nat /\ Len(s) = n + 1
      /\ \A i \in 1..n : t[i] = s[i + 1]
  OBVIOUS
<1>2. /\ \A i \in 0..n + 1 : r[i] \in Nat
      /\ r[n + 1] = sent /\ \A i, j \in 0..n + 1 : i <= j => r[i] <= r[j]
      /\ \A i \in 1..n + 1 : IF s[i].kind = "output"
                         THEN s[i].first = r[i - 1] + 1 /\ s[i].last = r[i] /\ r[i - 1] < r[i]
                         ELSE r[i] = r[i - 1]
  BY <1>1 DEF Flow
<1> HIDE DEF t, n
<1>3. DOMAIN r2 = 0..n /\ \A i \in 0..n : r2[i] = r[i + 1] /\ i + 1 \in 0..n + 1
  BY <1>1
<1> HIDE DEF r2
<1>4. (\A i \in 0..n : r2[i] \in Nat) /\ r2[n] = sent
  BY <1>1, <1>2, <1>3
<1>5. ASSUME NEW i \in 0..n, NEW j \in 0..n, i <= j PROVE r2[i] <= r2[j]
  <2>1. i + 1 <= j + 1
    BY <1>1, <1>5
  <2> QED
    BY <1>2, <1>3, <2>1
<1>6. ASSUME NEW i \in 1..n
      PROVE  IF t[i].kind = "output"
             THEN t[i].first = r2[i - 1] + 1 /\ t[i].last = r2[i] /\ r2[i - 1] < r2[i]
             ELSE r2[i] = r2[i - 1]
  <2>1. i + 1 \in 1..n + 1 /\ i \in 0..n /\ i - 1 \in 0..n /\ i + 1 - 1 = i - 1 + 1 /\ i - 1 + 1 = i
    BY <1>1
  <2>2. r2[i] = r[i + 1] /\ r2[i - 1] = r[i] /\ t[i] = s[i + 1]
    BY <1>1, <1>3, <2>1
  <2> QED
    BY <1>2, <2>1, <2>2
<1>7. Flow(t, sent, r2)
  BY <1>1, <1>3, <1>4, <1>5, <1>6 DEF Flow
<1> QED
  BY <1>3, <1>7 DEF t, n

LEMMA FlowEmpty ==
    ASSUME NEW sent \in Nat
    PROVE  \E r2 : Flow(<<>>, sent, r2) /\ r2[0] = sent
<1> DEFINE r2 == [i \in 0..0 |-> sent]
           q == <<>>
<1>1. Len(q) = 0 /\ \A i \in 1..0 : FALSE
  OBVIOUS
<1>2. DOMAIN r2 = 0..0 /\ \A i \in 0..0 : i = 0 /\ r2[i] = sent
  OBVIOUS
<1> HIDE DEF r2, q
<1>3. r2[0] = sent
  BY <1>2
<1>4. Flow(q, sent, r2)
  BY <1>1, <1>2, <1>3 DEF Flow
<1> QED
  BY <1>3, <1>4 DEF q
-----------------------------------------------------------------------------
(* The replay of a view, from the worker to its end *)

Carries(s, v, kind) == \E i \in 1..Len(s) : s[i].for = v /\ s[i].kind = kind
Rank(kind) == IF kind = "begin" THEN 1 ELSE IF kind = "end" THEN 2 ELSE 3

\* Begin, end and reply are on the way in this order, as far as the worker has come with
\* them, and carry the cut
MailOK(s, at, own, v, cut, r) ==
    /\ at \in {"begun", "ended"} => own = cut
    /\ \A i \in 1..Len(s) : s[i].for = v =>
          /\ at # "asked"
          /\ at = "begun" => s[i].kind = "begin"
          /\ at = "ended" => s[i].kind \in {"begin", "end"}
          /\ s[i].kind = "begin" => r[i] = cut
          /\ s[i].kind \in {"end", "reply"} => s[i].last = cut
    /\ at = "none" => Carries(s, v, "reply") \/ Carries(s, v, "gone")
    /\ Carries(s, v, "begin") /\ at # "begun" => Carries(s, v, "end")
    /\ \A i, j \in 1..Len(s) : i < j /\ s[i].for = v /\ s[j].for = v =>
          Rank(s[i].kind) < Rank(s[j].kind)

AtCut(shows, cut) == shows.exact /\ ~shows.replaying /\ shows.shown = cut

\* What of it has arrived
HeardOK(s, at, v, cut, told, sent, shows, buffer) ==
    at # "asked" /\ ~Carries(s, v, "gone") =>
       /\ cut <= sent
       /\ ~Carries(s, v, "begin") => cut <= told
       /\ at # "begun" /\ ~Carries(s, v, "end") => AtCut(shows, cut)
       /\ Beyond(cut, buffer, told)

\* More messages, and where they are in the flow
Extends(s, r, t, r2) ==
    /\ Len(s) \in Nat /\ Len(t) \in Nat /\ Len(s) <= Len(t)
    /\ \A i \in 1..Len(s) : t[i] = s[i]
    /\ \A i \in 0..Len(s) : r2[i] = r[i]
New(s, t) == {i \in 1..Len(t) : i > Len(s)}

LEMMA CarriesMore ==
    ASSUME NEW s, NEW t, NEW r, NEW r2, NEW v, Extends(s, r, t, r2),
           \A i \in New(s, t) : t[i].for # v
    PROVE  \A kind : Carries(t, v, kind) <=> Carries(s, v, kind)
<1>1. \A i \in 1..Len(t) : i \in 1..Len(s) \/ i \in New(s, t)
  BY DEF Extends, New
<1>2. \A i \in 1..Len(s) : i \in 1..Len(t) /\ t[i] = s[i]
  BY DEF Extends
<1> QED
  BY <1>1, <1>2 DEF Carries

\* Messages for others
LEMMA MailPasses ==
    ASSUME NEW s, NEW t, NEW r, NEW r2, NEW v, Extends(s, r, t, r2),
           \A i \in New(s, t) : t[i].for # v,
           NEW at, NEW own, NEW cut, MailOK(s, at, own, v, cut, r)
    PROVE  MailOK(t, at, own, v, cut, r2)
<1>1. \A i \in 1..Len(t) : t[i].for = v => i \in 1..Len(s) /\ t[i] = s[i] /\ r2[i] = r[i]
  <2>1. \A i \in 1..Len(t) : i \in 1..Len(s) \/ i \in New(s, t)
    BY DEF Extends, New
  <2>2. \A i \in 1..Len(s) : i \in 0..Len(s)
    BY DEF Extends
  <2> QED
    BY <2>1, <2>2 DEF Extends
<1>2. \A kind : Carries(t, v, kind) <=> Carries(s, v, kind)
  BY CarriesMore
<1> QED
  BY <1>1, <1>2 DEF MailOK

LEMMA HeardPasses ==
    ASSUME NEW s, NEW t, NEW r, NEW r2, NEW v, Extends(s, r, t, r2),
           \A i \in New(s, t) : t[i].for # v,
           NEW at, NEW cut \in Nat, NEW told, NEW sent \in Nat, NEW more \in Nat, sent <= more,
           NEW shows, NEW buffer,
           HeardOK(s, at, v, cut, told, sent, shows, buffer)
    PROVE  HeardOK(t, at, v, cut, told, more, shows, buffer)
<1>1. \A kind : Carries(t, v, kind) <=> Carries(s, v, kind)
  BY CarriesMore
<1> QED
  BY <1>1 DEF HeardOK

\* The next message for the view, the last of those added
Arrives(s, r, t, r2, v, at, own, cut, at2, own2, cut2) ==
    /\ Extends(s, r, t, r2) /\ Len(s) < Len(t)
    /\ \A i \in New(s, t) : i # Len(t) => t[i].for # v
    /\ t[Len(t)].for = v
    /\ MailOK(s, at, own, v, cut, r)
    /\ \/ /\ at = "asked" /\ at2 = "begun" /\ t[Len(t)].kind = "begin" /\ own2 = cut2
          /\ r2[Len(t)] = cut2
       \/ /\ at = "begun" /\ at2 = "ended" /\ t[Len(t)].kind = "end" /\ own2 = cut2
          /\ cut2 = cut /\ t[Len(t)].last = cut
       \/ /\ at = "ended" /\ at2 = "none" /\ t[Len(t)].kind = "reply"
          /\ cut2 = cut /\ t[Len(t)].last = cut
       \/ at = "asked" /\ at2 = "none" /\ t[Len(t)].kind = "gone"

LEMMA MailArrives ==
    ASSUME NEW s, NEW t, NEW r, NEW r2, NEW v, NEW at, NEW own, NEW cut, NEW at2, NEW own2,
           NEW cut2, Arrives(s, r, t, r2, v, at, own, cut, at2, own2, cut2)
    PROVE  MailOK(t, at2, own2, v, cut2, r2)
<1> USE DEF Arrives
<1>0. Len(s) \in Nat /\ Len(t) \in Nat /\ Len(t) \in 1..Len(t)
  BY DEF Extends
<1>1. \A i \in 1..Len(t) : t[i].for = v =>
         i = Len(t) \/ (i \in 1..Len(s) /\ t[i] = s[i] /\ r2[i] = r[i] /\ i < Len(t))
  <2>1. \A i \in 1..Len(t) : (i \in 1..Len(s) /\ i < Len(t)) \/ i \in New(s, t)
    BY <1>0 DEF Extends, New
  <2>2. \A i \in 1..Len(s) : i \in 0..Len(s)
    BY <1>0
  <2> QED
    BY <2>1, <2>2 DEF Extends
<1>2. ASSUME NEW i \in 1..Len(t), t[i].for = v
      PROVE  /\ at2 # "asked"
             /\ at2 = "begun" => t[i].kind = "begin"
             /\ at2 = "ended" => t[i].kind \in {"begin", "end"}
             /\ t[i].kind = "begin" => r2[i] = cut2
             /\ t[i].kind \in {"end", "reply"} => t[i].last = cut2
  BY <1>1, <1>2 DEF MailOK
<1>3. at2 = "none" => Carries(t, v, "reply") \/ Carries(t, v, "gone")
  BY <1>0 DEF Carries
<1>4. ASSUME NEW i \in 1..Len(t), NEW j \in 1..Len(t), i < j, t[i].for = v, t[j].for = v
      PROVE  Rank(t[i].kind) < Rank(t[j].kind)
  <2>1. i # Len(t)
    BY <1>0, <1>4
  <2>2. i \in 1..Len(s) /\ t[i] = s[i]
    BY <1>1, <1>4, <2>1
  <2>3. CASE j = Len(t)
    BY <2>2, <2>3, <1>4 DEF MailOK, Rank
  <2>4. CASE j # Len(t)
    <3>1. j \in 1..Len(s) /\ t[j] = s[j]
      BY <1>1, <1>4, <2>4
    <3> QED
      BY <2>2, <3>1, <1>4 DEF MailOK
  <2> QED
    BY <2>3, <2>4
<1>5. at2 \in {"begun", "ended"} => own2 = cut2
  OBVIOUS
<1>6. ASSUME Carries(t, v, "begin"), at2 # "begun" PROVE Carries(t, v, "end")
  <2>1. PICK i \in 1..Len(t) : t[i].for = v /\ t[i].kind = "begin"
    BY <1>6 DEF Carries
  <2>2. i # Len(t)
    BY <1>6, <2>1
  <2>3. i \in 1..Len(s) /\ s[i].for = v /\ s[i].kind = "begin"
    BY <1>1, <2>1, <2>2
  <2>4. Carries(s, v, "begin") /\ at # "asked"
    BY <2>3 DEF Carries, MailOK
  <2>5. CASE at = "begun"
    BY <1>0, <1>6, <2>5 DEF Carries
  <2>6. CASE at # "begun"
    <3>1. PICK j \in 1..Len(s) : s[j].for = v /\ s[j].kind = "end"
      BY <2>4, <2>6 DEF Carries, MailOK
    <3>2. j \in 1..Len(t) /\ t[j] = s[j]
      BY <1>0 DEF Extends
    <3> QED
      BY <3>1, <3>2 DEF Carries
  <2> QED
    BY <2>5, <2>6
<1> QED
  BY <1>2, <1>3, <1>4, <1>5, <1>6 DEF MailOK

\* A message is handled
LEMMA MailLeaves ==
    ASSUME NEW s \in Seq(WorkerMessage), s # <<>>, NEW r, NEW r2, NEW v,
           \A i \in 0..Len(s) - 1 : r2[i] = r[i + 1],
           NEW at, NEW own, NEW cut, MailOK(s, at, own, v, cut, r),
           s[1].for = v => s[1].kind \in {"begin", "end"}
    PROVE  MailOK(Tail(s), at, own, v, cut, r2)
<1> DEFINE t == Tail(s)
<1>1. /\ Len(s) \in Nat /\ Len(t) = Len(s) - 1 /\ Len(t) \in Nat
      /\ \A i \in 1..Len(t) : t[i] = s[i + 1] /\ i + 1 \in 1..Len(s)
  BY TailIs
<1> HIDE DEF t
<1>2. \A i \in 1..Len(t) : t[i] = s[i + 1] /\ r2[i] = r[i + 1] /\ i + 1 \in 1..Len(s)
  <2>1. \A i \in 1..Len(t) : i \in 0..Len(s) - 1
    BY <1>1
  <2> QED
    BY <1>1, <2>1
<1>3. \A kind : kind \in {"reply", "gone"} /\ Carries(s, v, kind) => Carries(t, v, kind)
  <2> SUFFICES ASSUME NEW kind \in {"reply", "gone"}, Carries(s, v, kind) PROVE Carries(t, v, kind)
    OBVIOUS
  <2>1. PICK i \in 1..Len(s) : s[i].for = v /\ s[i].kind = kind
    BY DEF Carries
  <2>2. i # 1
    BY <2>1
  <2>3. i - 1 \in 1..Len(t) /\ i - 1 + 1 = i
    BY <1>1, <2>2
  <2>4. t[i - 1] = s[i]
    BY <1>1, <2>3
  <2> QED
    BY <2>1, <2>3, <2>4 DEF Carries
<1>4. ASSUME NEW i \in 1..Len(t), NEW j \in 1..Len(t), i < j, t[i].for = v, t[j].for = v
      PROVE  Rank(t[i].kind) < Rank(t[j].kind)
  <2>1. i + 1 < j + 1
    BY <1>1, <1>4
  <2> QED
    BY <1>2, <1>4, <2>1 DEF MailOK
<1>5. \A i \in 1..Len(t) : t[i].for = v =>
          /\ at # "asked"
          /\ at = "begun" => t[i].kind = "begin"
          /\ at = "ended" => t[i].kind \in {"begin", "end"}
          /\ t[i].kind = "begin" => r2[i] = cut
          /\ t[i].kind \in {"end", "reply"} => t[i].last = cut
  BY <1>2 DEF MailOK
<1>6. ASSUME Carries(t, v, "begin"), at # "begun" PROVE Carries(t, v, "end")
  <2>1. PICK i \in 1..Len(t) : t[i].for = v /\ t[i].kind = "begin"
    BY <1>6 DEF Carries
  <2>2. i + 1 \in 1..Len(s) /\ 1 \in 1..Len(s) /\ 1 < i + 1 /\ s[i + 1].for = v /\ s[i + 1].kind = "begin"
    BY <1>1, <2>1
  <2>3. s[1].for # v
    <3>1. s[1].for = v => Rank(s[1].kind) < Rank(s[i + 1].kind)
      BY <2>2 DEF MailOK
    <3> QED
      BY <2>2, <3>1 DEF Rank
  <2>4. PICK j \in 1..Len(s) : s[j].for = v /\ s[j].kind = "end"
    BY <1>6, <2>2 DEF Carries, MailOK
  <2>5. j - 1 \in 1..Len(t) /\ j - 1 + 1 = j
    BY <1>1, <2>3, <2>4
  <2>6. t[j - 1] = s[j]
    BY <1>1, <2>5
  <2> QED
    BY <2>4, <2>5, <2>6 DEF Carries
<1> QED
  BY <1>3, <1>4, <1>5, <1>6 DEF MailOK, t

LEMMA CarriesLess ==
    ASSUME NEW s \in Seq(WorkerMessage), s # <<>>, NEW v
    PROVE  /\ \A kind : Carries(Tail(s), v, kind) => Carries(s, v, kind)
           /\ \A kind : Carries(s, v, kind) =>
                 Carries(Tail(s), v, kind) \/ (s[1].for = v /\ s[1].kind = kind)
<1> DEFINE t == Tail(s)
<1>1. /\ Len(s) \in Nat /\ Len(t) = Len(s) - 1 /\ Len(t) \in Nat
      /\ \A i \in 1..Len(t) : t[i] = s[i + 1] /\ i + 1 \in 1..Len(s)
  BY TailIs
<1> HIDE DEF t
<1>2. \A kind : Carries(t, v, kind) => Carries(s, v, kind)
  BY <1>1 DEF Carries
<1>3. ASSUME NEW kind, Carries(s, v, kind), ~(s[1].for = v /\ s[1].kind = kind)
      PROVE  Carries(t, v, kind)
  <2>1. PICK i \in 1..Len(s) : s[i].for = v /\ s[i].kind = kind
    BY <1>3 DEF Carries
  <2>2. i # 1
    BY <1>3, <2>1
  <2>3. i - 1 \in 1..Len(t) /\ i - 1 + 1 = i
    BY <1>1, <2>2
  <2>4. t[i - 1] = s[i]
    BY <1>1, <2>3
  <2> QED
    BY <2>1, <2>3, <2>4 DEF Carries
<1> QED
  BY <1>2, <1>3 DEF t
-----------------------------------------------------------------------------
(* The inductive invariant *)

ReplayKinds == {"begin", "end", "reply", "gone"}

\* Message i, with what the daemon has been told of when it has handled it
MessageOK(m, i, told, worker, at, views) ==
    /\ m.kind = "exit" => ~worker.alive /\ worker.sent = worker.printed /\ told = worker.sent
    /\ m.kind \in {"listed", "unlisted"} => i = 1 /\ at = "listing"
    /\ m.for <= views
    /\ m.kind \in ReplayKinds <=> m.for # 0

SocketOK(r) ==
    /\ ~Connected => socket = <<>>
    /\ \A i \in 1..Len(socket) :
          MessageOK(socket[i], i, r[i], terminal, channel.at, counts.views)

NumbersOK ==
    /\ view.number <= counts.views
    /\ \A v \in 1..MaxViews : replays[v].at # "none" => v <= counts.views

\* The worker has no replay for the view, and none is on its way
NoReplayFor(v, asked, s) == asked[v].at = "none" /\ \A i \in 1..Len(s) : s[i].for # v

ReplayOK(v, cut, r) ==
    /\ MailOK(socket, replays[v].at, replays[v].cut, v, cut, r)
    /\ HeardOK(socket, replays[v].at, v, cut, r[0], terminal.sent, screen, view.buffer)

Settled == channel.at = "up" \/ view.exiting = "exit"

\* A view whose replays are done: what follows the screen is on its way
LiveOK(r) ==
    ~view.needs =>
       /\ view.request = "none" /\ view.buffer = <<>> /\ view.skipped = <<>>
       /\ ~screen.replaying /\ NoReplayFor(view.number, replays, socket)
       /\ Settled => screen.exact /\ Chain(screen.shown, view.out, r[0])

NeedyOK(r) ==
    /\ \A i \in 1..Len(view.buffer) : view.buffer[i].last <= r[0]
    /\ view.needs => view.out = <<>>
    /\ view.request = "none" /\ view.needs => view.exiting # "no"
    /\ view.request = "waits" => channel.at # "up" /\ NoReplayFor(view.number, replays, socket)

PendingOK(r) ==
    view.request = "pending" => Connected /\ \E cut \in Outputs : ReplayOK(view.number, cut, r)

ResolvedOK(r) ==
    view.request = "resolved" =>
       /\ Connected /\ NoReplayFor(view.number, replays, socket) /\ AtCut(screen, view.cut)
       /\ view.cut <= r[0] /\ Beyond(view.cut, view.buffer, r[0])

\* A view with a screen that lost its output to pressure shows none of what follows
SkippedOK(r) ==
    view.needs /\ view.restored /\ Settled =>
       /\ view.skipped # <<>>
       /\ r[0] = IF view.buffer # <<>> THEN view.buffer[Len(view.buffer)].last
                 ELSE view.skipped[Len(view.skipped)].last

ExitOK(r) ==
    view.exiting = "exit" =>
       /\ ~terminal.alive /\ r[0] = terminal.printed /\ terminal.sent = terminal.printed
       /\ \/ channel.at = "up"
          \/ channel.at = "down" /\ view.request \in {"none", "failed"}

Shows == Viewed /\ view.exiting # "gone"
ViewOK(r) ==
    Shows => LiveOK(r) /\ NeedyOK(r) /\ PendingOK(r) /\ ResolvedOK(r) /\ SkippedOK(r) /\ ExitOK(r)

EndOK ==
    /\ ~recorded => ~Viewed \/ view.exiting # "no"
    /\ view.exiting = "exit" => ~recorded
    /\ ~Viewed => view.request = "none"
    /\ screen.closed => /\ ~recorded /\ ~Viewed /\ ~terminal.alive
                        /\ screen.exact /\ ~screen.replaying => screen.shown = terminal.printed

StreamAt(r) ==
    /\ StreamTypeOK /\ terminal.sent <= terminal.printed
    /\ Flow(socket, terminal.sent, r) /\ SocketOK(r) /\ NumbersOK /\ EndOK /\ ViewOK(r)

StreamInv == \E r : StreamAt(r)

LEMMA StreamTypes ==
    /\ \A n \in Outputs : n \in Nat
    /\ MaxOutput \in Nat /\ MaxViews \in Nat /\ MaxCuts \in Nat
    /\ MaxPressures \in Nat /\ MaxTimeouts \in Nat /\ 0 \in Outputs
BY StreamAssumption DEF Outputs

LEMMA StreamStarts == StreamInit => StreamInv
<1> SUFFICES ASSUME StreamInit PROVE StreamInv
  OBVIOUS
<1> USE DEF StreamInit
<1>1. StreamTypeOK
  <2>1. view \in View
    BY StreamTypes DEF NoView, NewView, View, Outputs
  <2>2. replays \in [1..MaxViews -> Replay]
    BY StreamTypes DEF NoReplay, Replay
  <2>3. socket \in Seq(WorkerMessage)
    OBVIOUS
  <2> QED
    BY <2>1, <2>2, <2>3, StreamTypes DEF StreamTypeOK, Outputs
<1>2. PICK r : Flow(<<>>, 0, r) /\ r[0] = 0
  BY FlowEmpty
<1>3. ~Viewed /\ Connected
  BY DEF Viewed, NoView, NewView, Connected
<1>4. SocketOK(r)
  <2>1. Len(socket) = 0
    OBVIOUS
  <2>2. \A i \in 1..0 : FALSE
    OBVIOUS
  <2> QED
    BY <1>3, <2>1, <2>2 DEF SocketOK
<1>5. NumbersOK
  BY DEF NumbersOK, NoView, NewView, NoReplay
<1>6. EndOK
  BY DEF EndOK, NoView, NewView
<1>7. ViewOK(r)
  BY <1>3 DEF ViewOK, Shows
<1>8. StreamAt(r)
  BY <1>1, <1>2, <1>4, <1>5, <1>6, <1>7 DEF StreamAt
<1> QED
  BY <1>8 DEF StreamInv

\* The invariant gives what a reader wants of it
LEMMA ScreenFollows == StreamInv => ScreenIsExact /\ StreamTypeOK
<1> SUFFICES ASSUME NEW r, StreamAt(r) PROVE ScreenIsExact /\ StreamTypeOK
  BY DEF StreamInv
<1>1. StreamTypeOK /\ EndOK /\ ViewOK(r)
  BY DEF StreamAt
<1>2. ASSUME Viewed
      PROVE  /\ screen.exact \/ channel.at # "up" \/ view.needs \/ view.exiting = "gone"
             /\ screen.replaying => SnapshotInFlight \/ view.exiting # "no"
  <2>1. CASE view.exiting = "gone"
    BY <2>1
  <2>2. CASE view.exiting # "gone"
    <3>1. LiveOK(r) /\ NeedyOK(r)
      BY <1>1, <1>2, <2>2 DEF ViewOK, Shows
    <3> QED
      BY <3>1 DEF LiveOK, NeedyOK, Settled, SnapshotInFlight
  <2> QED
    BY <2>1, <2>2
<1>3. screen.closed /\ screen.exact /\ ~screen.replaying => screen.shown = terminal.printed
  BY <1>1 DEF EndOK
<1> QED
  BY <1>1, <1>2, <1>3 DEF ScreenIsExact
-----------------------------------------------------------------------------
(* The worker's steps *)

\* Output that was held back
LEMMA HeldFlows ==
    ASSUME StreamTypeOK, terminal.sent <= terminal.printed, NEW r, Flow(socket, terminal.sent, r)
    PROVE  \E t, r2 :
              /\ t \in Seq(WorkerMessage) /\ t = socket \o Held /\ Flow(t, terminal.printed, r2)
              /\ Extends(socket, r, t, r2)
              /\ \A i \in New(socket, t) : t[i].for = 0 /\ t[i].kind = "output"
<1>1. socket \in Seq(WorkerMessage) /\ terminal.sent \in Nat /\ terminal.printed \in Nat
      /\ terminal.sent \in Outputs /\ terminal.printed \in Outputs
  BY StreamTypes DEF StreamTypeOK
<1>2. CASE terminal.sent < terminal.printed
  <2> DEFINE m == Says("output", 0, terminal.sent + 1, terminal.printed)
             t == Append(socket, m)
  <2>1. m \in WorkerMessage
    <3>1. terminal.sent + 1 \in Outputs
      BY <1>1, <1>2, StreamTypes DEF Outputs
    <3> QED
      BY <1>1, <3>1, StreamTypes DEF Says, WorkerMessage
  <2>2. m.kind = "output" /\ m.first = terminal.sent + 1 /\ m.last = terminal.printed /\ m.for = 0
    BY DEF Says
  <2>3. Held = <<m>>
    BY <1>2 DEF Held
  <2> HIDE DEF m
  <2>4. socket \o <<m>> = Append(socket, m)
    BY <1>1, <2>1
  <2>5. /\ t \in Seq(WorkerMessage) /\ Len(t) = Len(socket) + 1 /\ Len(socket) \in Nat
        /\ \A i \in 1..Len(socket) : t[i] = socket[i]
        /\ t[Len(socket) + 1] = m
    BY <1>1, <2>1, AppendIs
  <2>6. PICK r2 : Flow(t, terminal.printed, r2) /\ \A i \in 0..Len(socket) : r2[i] = r[i]
    BY <1>1, <1>2, <2>1, <2>2, FlowAppend
  <2> HIDE DEF t
  <2>7. Extends(socket, r, t, r2)
    BY <2>5, <2>6 DEF Extends
  <2>8. \A i \in New(socket, t) : i = Len(socket) + 1
    BY <2>5 DEF New
  <2> QED
    BY <2>2, <2>3, <2>4, <2>5, <2>6, <2>7, <2>8 DEF t
<1>3. CASE ~(terminal.sent < terminal.printed)
  <2>1. terminal.sent = terminal.printed
    BY <1>1, <1>3
  <2>2. socket \o Held = socket
    BY <1>1, <1>3 DEF Held
  <2>3. Extends(socket, r, socket, r) /\ \A i \in New(socket, socket) : FALSE
    BY <1>1 DEF Extends, New
  <2> QED
    BY <1>1, <2>1, <2>2, <2>3
<1> QED
  BY <1>2, <1>3

\* That, and one message more
LEMMA HeldAndMoreFlow ==
    ASSUME StreamTypeOK, terminal.sent <= terminal.printed, NEW r, Flow(socket, terminal.sent, r),
           NEW m \in WorkerMessage, m.kind # "output"
    PROVE  \E t, r2 :
              /\ t \in Seq(WorkerMessage) /\ t = socket \o Append(Held, m)
              /\ Flow(t, terminal.printed, r2) /\ Extends(socket, r, t, r2)
              /\ Len(socket) < Len(t) /\ t[Len(t)] = m
              /\ \A i \in New(socket, t) :
                    i = Len(t) \/ (t[i].for = 0 /\ t[i].kind = "output")
<1>1. PICK u, r1 :
          /\ u \in Seq(WorkerMessage) /\ u = socket \o Held /\ Flow(u, terminal.printed, r1)
          /\ Extends(socket, r, u, r1)
          /\ \A i \in New(socket, u) : u[i].for = 0 /\ u[i].kind = "output"
  BY HeldFlows
<1> DEFINE t == Append(u, m)
<1>2. socket \in Seq(WorkerMessage) /\ terminal.printed \in Nat
  BY StreamTypes DEF StreamTypeOK
<1>3. Held \in Seq(WorkerMessage)
  <2>1. CASE terminal.sent < terminal.printed
    <3>1. /\ terminal.sent \in Outputs /\ terminal.printed \in Outputs
          /\ terminal.sent \in Nat /\ terminal.printed \in Nat
      BY StreamTypes DEF StreamTypeOK
    <3>2. terminal.sent + 1 \in Outputs
      BY <2>1, <3>1, StreamTypes DEF Outputs
    <3>3. Says("output", 0, terminal.sent + 1, terminal.printed) \in WorkerMessage
      BY <3>1, <3>2, StreamTypes DEF Says, WorkerMessage
    <3> QED
      BY <2>1, <3>3 DEF Held
  <2>2. CASE ~(terminal.sent < terminal.printed)
    BY <2>2 DEF Held
  <2> QED
    BY <2>1, <2>2
<1>4. socket \o Append(Held, m) = t
  <2> DEFINE h == Held
  <2>1. h \in Seq(WorkerMessage) /\ u = socket \o h
    BY <1>1, <1>3
  <2> HIDE DEF h
  <2>2. socket \o Append(h, m) = Append(socket \o h, m)
    BY <1>2, <2>1
  <2> QED
    BY <2>1, <2>2 DEF h
<1>5. PICK r2 : Flow(t, terminal.printed, r2) /\ \A i \in 0..Len(u) : r2[i] = r1[i]
  <2> DEFINE p == terminal.printed
  <2>1. IF m.kind = "output" THEN m.first = p + 1 /\ m.last = p /\ p < p ELSE p = p
    OBVIOUS
  <2>2. p \in Nat /\ u \in Seq(WorkerMessage) /\ Flow(u, p, r1)
    BY <1>1, <1>2
  <2> HIDE DEF p
  <2>3. \E r2 : Flow(Append(u, m), p, r2) /\ \A i \in 0..Len(u) : r2[i] = r1[i]
    BY <2>1, <2>2, FlowAppend
  <2> QED
    BY <2>3 DEF p
<1>6. /\ t \in Seq(WorkerMessage) /\ Len(t) = Len(u) + 1 /\ Len(u) \in Nat
      /\ \A i \in 1..Len(u) : t[i] = u[i]
      /\ t[Len(u) + 1] = m
  BY <1>1, AppendIs
<1> HIDE DEF t
<1>7. Extends(socket, r, t, r2) /\ Len(socket) < Len(t)
  <2>1. /\ Len(socket) \in Nat /\ Len(socket) <= Len(u)
        /\ \A i \in 1..Len(socket) : u[i] = socket[i]
        /\ \A i \in 0..Len(socket) : r1[i] = r[i]
    BY <1>1 DEF Extends
  <2>2. \A i \in 0..Len(socket) : i \in 0..Len(u)
    BY <1>6, <2>1
  <2>3. \A i \in 1..Len(socket) : i \in 1..Len(u)
    BY <1>6, <2>1
  <2>4. Len(socket) \in Nat /\ Len(t) \in Nat /\ Len(socket) <= Len(t) /\ Len(socket) < Len(t)
    BY <1>6, <2>1
  <2>5. \A i \in 1..Len(socket) : t[i] = socket[i]
    BY <1>6, <2>1, <2>3
  <2>6. ASSUME NEW i \in 0..Len(socket) PROVE r2[i] = r[i]
    <3>1. i \in 0..Len(u) /\ r1[i] = r[i]
      BY <2>1, <2>2
    <3> QED
      BY <1>5, <3>1
  <2> QED
    BY <2>4, <2>5, <2>6 DEF Extends
<1>8. \A i \in New(socket, t) : i = Len(t) \/ (i \in New(socket, u) /\ t[i] = u[i])
  BY <1>6 DEF New
<1>9. \A i \in New(socket, t) : i = Len(t) \/ (t[i].for = 0 /\ t[i].kind = "output")
  BY <1>1, <1>8
<1>10. t[Len(t)] = m
  BY <1>6
<1> QED
  BY <1>4, <1>5, <1>6, <1>7, <1>9, <1>10

\* One message
LEMMA MessageFlows ==
    ASSUME StreamTypeOK, NEW r, Flow(socket, terminal.sent, r),
           NEW m \in WorkerMessage, m.kind # "output"
    PROVE  \E t, r2 :
              /\ t \in Seq(WorkerMessage) /\ t = socket \o <<m>>
              /\ Flow(t, terminal.sent, r2) /\ Extends(socket, r, t, r2)
              /\ Len(socket) < Len(t) /\ t[Len(t)] = m
              /\ \A i \in New(socket, t) : i = Len(t)
<1>1. socket \in Seq(WorkerMessage) /\ terminal.sent \in Nat
  BY StreamTypes DEF StreamTypeOK
<1> DEFINE t == Append(socket, m)
<1>2. socket \o <<m>> = t
  BY <1>1
<1>3. PICK r2 : Flow(t, terminal.sent, r2) /\ \A i \in 0..Len(socket) : r2[i] = r[i]
  BY <1>1, FlowAppend
<1>4. /\ t \in Seq(WorkerMessage) /\ Len(t) = Len(socket) + 1 /\ Len(socket) \in Nat
      /\ \A i \in 1..Len(socket) : t[i] = socket[i]
      /\ t[Len(socket) + 1] = m
  BY <1>1, AppendIs
<1> HIDE DEF t
<1>5. Extends(socket, r, t, r2)
  BY <1>3, <1>4 DEF Extends
<1>6. \A i \in New(socket, t) : i = Len(t)
  BY <1>4 DEF New
<1> QED
  BY <1>2, <1>3, <1>4, <1>5, <1>6
LEMMA WorkerStep ==
    ASSUME NEW r, StreamAt(r), NEW r2,
           UNCHANGED <<channel, recorded, view, screen, counts>>,
           StreamTypeOK', terminal'.sent <= terminal'.printed, Flow(socket', terminal'.sent, r2),
           ~Connected => socket' = <<>>,
           Connected => Extends(socket, r, socket', r2),
           \A i \in 1..Len(socket') : i > Len(socket) =>
              MessageOK(socket'[i], i, r2[i], terminal', channel.at, counts.views),
           terminal.sent <= terminal'.sent,
           ~terminal.alive => /\ ~terminal'.alive /\ terminal'.sent = terminal.sent
                              /\ terminal'.printed = terminal.printed,
           \A v \in 1..MaxViews : replays'[v].at # "none" => replays[v].at # "none",
           Shows /\ NoReplayFor(view.number, replays, socket) => NoReplayFor(view.number, replays', socket'),
           Shows /\ view.request = "pending" =>
              \E cut \in Outputs :
                 /\ MailOK(socket', replays'[view.number].at, replays'[view.number].cut,
                           view.number, cut, r2)
                 /\ HeardOK(socket', replays'[view.number].at, view.number, cut, r2[0],
                            terminal'.sent, screen, view.buffer)
    PROVE  StreamAt(r2)'
<1> USE DEF StreamAt
<1>1. /\ view' = view /\ channel' = channel /\ recorded' = recorded /\ screen' = screen
      /\ counts' = counts /\ (Connected' <=> Connected) /\ (Shows' <=> Shows)
      /\ (Settled' <=> Settled) /\ (Viewed' <=> Viewed)
  BY DEF Connected, Shows, Settled, Viewed
<1>2. terminal.sent \in Nat /\ terminal'.sent \in Nat /\ Len(socket) \in Nat
  BY StreamTypes DEF StreamTypeOK
<1>3. r[0] \in Nat /\ r2[0] \in Nat /\ r[0] <= r2[0] /\ (Connected => r2[0] = r[0])
      /\ (~terminal.alive => r2[0] = r[0])
  <2>1. r[0] \in Nat /\ r2[0] \in Nat
    <3>1. 0 \in 0..Len(socket) /\ 0 \in 0..Len(socket')
      BY StreamTypes DEF StreamTypeOK
    <3> QED
      BY <3>1 DEF Flow
  <2>2. CASE Connected
    <3>1. r2[0] = r[0]
      BY <1>2, <2>2 DEF Extends
    <3> QED
      BY <2>1, <2>2, <3>1
  <2>3. CASE ~Connected
    <3>1. Len(socket) = 0 /\ Len(socket') = 0
      BY <2>3 DEF SocketOK
    <3>2. r[0] = terminal.sent /\ r2[0] = terminal'.sent
      BY <3>1 DEF Flow
    <3> QED
      BY <2>1, <2>3, <3>2
  <2> QED
    BY <2>2, <2>3
<1>4. SocketOK(r2)'
  <2>1. ASSUME NEW i \in 1..Len(socket')
        PROVE  MessageOK(socket'[i], i, r2[i], terminal', channel.at, counts.views)
    <3>1. CASE i > Len(socket)
      BY <3>1
    <3>2. CASE ~(i > Len(socket))
      <4>1. Connected
        <5>1. ~Connected => Len(socket') = 0
          OBVIOUS
        <5>2. Len(socket') # 0
          OBVIOUS
        <5> QED
          BY <5>1, <5>2
      <4>2. i \in 1..Len(socket) /\ i \in 0..Len(socket) /\ socket'[i] = socket[i] /\ r2[i] = r[i]
        BY <1>2, <3>2, <4>1 DEF Extends
      <4>3. MessageOK(socket[i], i, r[i], terminal, channel.at, counts.views)
        BY <4>2 DEF SocketOK
      <4> QED
        BY <1>1, <4>2, <4>3 DEF MessageOK
    <3> QED
      BY <3>1, <3>2
  <2> QED
    BY <1>1, <2>1 DEF SocketOK
<1>5. NumbersOK'
  BY <1>1 DEF NumbersOK
<1>6. EndOK'
  BY <1>1 DEF EndOK
<1>7. ASSUME Shows
      PROVE  (LiveOK(r2) /\ NeedyOK(r2) /\ PendingOK(r2) /\ ResolvedOK(r2) /\ SkippedOK(r2) /\ ExitOK(r2))'
  <2>1. LiveOK(r) /\ NeedyOK(r) /\ PendingOK(r) /\ ResolvedOK(r) /\ SkippedOK(r) /\ ExitOK(r)
    BY <1>7 DEF ViewOK
  <2>2. Settled => r2[0] = r[0]
    BY <1>3, <2>1 DEF Settled, Connected, ExitOK
  <2>3. LiveOK(r2)'
    BY <1>1, <1>7, <2>1, <2>2 DEF LiveOK
  <2>4. NeedyOK(r2)'
    <3>1. ASSUME NEW i \in 1..Len(view.buffer) PROVE view.buffer[i].last <= r2[0]
      <4>1. view.buffer[i].last \in Nat
        <5>1. view.buffer[i] \in Chunk
          BY DEF StreamTypeOK, View
        <5> QED
          BY <5>1, StreamTypes DEF Chunk
      <4>2. view.buffer[i].last <= r[0]
        BY <2>1 DEF NeedyOK
      <4> QED
        BY <4>1, <4>2, <1>3
    <3> QED
      BY <1>1, <1>7, <2>1, <3>1 DEF NeedyOK
  <2>5. PendingOK(r2)'
    <3>1. ASSUME view.request = "pending"
          PROVE  \E cut \in Outputs : ReplayOK(view.number, cut, r2)'
      BY <1>1, <1>7, <3>1 DEF ReplayOK
    <3> QED
      BY <1>1, <2>1, <3>1 DEF PendingOK
  <2>6. ResolvedOK(r2)'
    BY <1>1, <1>3, <1>7, <2>1 DEF ResolvedOK
  <2>7. SkippedOK(r2)'
    BY <1>1, <2>1, <2>2 DEF SkippedOK
  <2>8. ExitOK(r2)'
    BY <1>1, <1>3, <2>1 DEF ExitOK
  <2> QED
    BY <2>3, <2>4, <2>5, <2>6, <2>7, <2>8
<1>8. ViewOK(r2)'
  BY <1>1, <1>7 DEF ViewOK
<1> QED
  BY <1>4, <1>5, <1>6, <1>8
LEMMA PrintsStep == ASSUME NEW r, StreamAt(r), Prints PROVE StreamAt(r)'
<1> USE DEF Prints
<1>1. StreamTypeOK /\ terminal.sent \in Nat /\ terminal.printed \in Nat /\ terminal.sent <= terminal.printed
  BY StreamTypes DEF StreamAt, StreamTypeOK
<1>2. /\ terminal'.printed = terminal.printed + 1 /\ terminal'.sent = terminal.sent
      /\ terminal'.alive = terminal.alive /\ terminal.alive
  BY <1>1 DEF StreamTypeOK
<1>3. StreamTypeOK'
  <2>1. terminal' \in [printed: Outputs, sent: Outputs, alive: BOOLEAN]
    <3>1. terminal.printed + 1 \in Outputs
      BY <1>1, StreamTypes DEF Outputs
    <3> QED
      BY <1>1, <3>1 DEF StreamTypeOK
  <2> QED
    BY <1>1, <2>1 DEF StreamTypeOK
<1>4. terminal'.sent <= terminal'.printed
  BY <1>1, <1>2
<1>5. Flow(socket', terminal'.sent, r)
  BY <1>2 DEF StreamAt
<1>6. SocketOK(r)' /\ NumbersOK' /\ EndOK'
  BY <1>2 DEF StreamAt, SocketOK, MessageOK, NumbersOK, EndOK, Connected, Viewed
<1>7. ViewOK(r)'
  <2>1. SUFFICES ASSUME Shows
                 PROVE  (LiveOK(r) /\ NeedyOK(r) /\ PendingOK(r) /\ ResolvedOK(r) /\ SkippedOK(r)
                         /\ ExitOK(r))'
    BY DEF ViewOK, Shows, Viewed
  <2>2. LiveOK(r) /\ NeedyOK(r) /\ PendingOK(r) /\ ResolvedOK(r) /\ SkippedOK(r) /\ ExitOK(r)
    BY <2>1 DEF StreamAt, ViewOK
  <2>3. LiveOK(r)' /\ NeedyOK(r)' /\ ResolvedOK(r)' /\ SkippedOK(r)'
    BY <2>2 DEF LiveOK, NeedyOK, ResolvedOK, SkippedOK, NoReplayFor, Settled, Connected
  <2>4. PendingOK(r)'
    BY <1>2, <2>2 DEF PendingOK, ReplayOK, Connected
  <2>5. ExitOK(r)'
    BY <1>2, <2>2 DEF ExitOK
  <2> QED
    BY <2>3, <2>4, <2>5
<1> QED
  BY <1>3, <1>4, <1>5, <1>6, <1>7 DEF StreamAt

\* The types when messages have been added
LEMMA WorkerTypes ==
    ASSUME StreamTypeOK, UNCHANGED <<channel, recorded, view, screen, counts>>,
           terminal' \in [printed: Outputs, sent: Outputs, alive: BOOLEAN],
           replays' \in [1..MaxViews -> Replay], socket' \in Seq(WorkerMessage)
    PROVE  StreamTypeOK'
BY DEF StreamTypeOK

\* Output only, or with an exit behind it
LEMMA OutputStep ==
    ASSUME NEW r, StreamAt(r), terminal.alive,
           UNCHANGED <<replays, channel, recorded, view, screen, counts>>,
           terminal' \in [printed: Outputs, sent: Outputs, alive: BOOLEAN],
           terminal'.printed = terminal.printed, terminal'.sent = terminal.printed,
           \/ SendsToController(Held)
           \/ ~terminal'.alive /\ SendsToController(Append(Held, Says("exit", 0, 0, 0)))
    PROVE  StreamInv'
<1> DEFINE m == Says("exit", 0, 0, 0)
<1>0. StreamTypeOK /\ terminal.sent \in Nat /\ terminal.printed \in Nat /\ terminal.sent <= terminal.printed
      /\ Flow(socket, terminal.sent, r) /\ Len(socket) \in Nat /\ socket \in Seq(WorkerMessage)
  BY StreamTypes DEF StreamAt, StreamTypeOK
<1>1. m \in WorkerMessage /\ m.kind = "exit" /\ m.for = 0
  BY StreamTypes DEF Says, WorkerMessage
<1> HIDE DEF m
<1>2. CASE Connected
  <2>1. PICK r2 :
          /\ socket' \in Seq(WorkerMessage) /\ Flow(socket', terminal.printed, r2)
          /\ Extends(socket, r, socket', r2)
          /\ \A i \in New(socket, socket') :
                /\ socket'[i].for = 0
                /\ socket'[i].kind = "output" \/ (socket'[i].kind = "exit" /\ i = Len(socket') /\ ~terminal'.alive)
    <3>1. CASE SendsToController(Held)
      <4>1. socket' = socket \o Held
        BY <1>2, <3>1 DEF SendsToController
      <4> QED
        BY <1>0, <4>1, HeldFlows
    <3>2. CASE ~terminal'.alive /\ SendsToController(Append(Held, m))
      <4>1. socket' = socket \o Append(Held, m)
        BY <1>2, <3>2 DEF SendsToController
      <4>2. PICK t, r2 :
              /\ t \in Seq(WorkerMessage) /\ t = socket \o Append(Held, m)
              /\ Flow(t, terminal.printed, r2) /\ Extends(socket, r, t, r2)
              /\ Len(socket) < Len(t) /\ t[Len(t)] = m
              /\ \A i \in New(socket, t) :
                    i = Len(t) \/ (t[i].for = 0 /\ t[i].kind = "output")
        <5>1. /\ StreamTypeOK /\ terminal.sent <= terminal.printed
              /\ Flow(socket, terminal.sent, r) /\ m \in WorkerMessage /\ m.kind # "output"
          BY <1>0, <1>1
        <5> QED
          BY ONLY <5>1, HeldAndMoreFlow
      <4>3. socket' = t
        BY <4>1, <4>2
      <4>4. ASSUME NEW i \in New(socket, socket')
            PROVE  /\ socket'[i].for = 0
                   /\ \/ socket'[i].kind = "output"
                      \/ socket'[i].kind = "exit" /\ i = Len(socket') /\ ~terminal'.alive
        BY <1>1, <3>2, <4>2, <4>3
      <4> QED
        BY <4>2, <4>3, <4>4
    <3> QED
      BY <3>1, <3>2 DEF m
  <2>2. StreamTypeOK' /\ terminal'.sent <= terminal'.printed /\ Flow(socket', terminal'.sent, r2)
    <3>1. StreamTypeOK'
      BY <1>0, <2>1, WorkerTypes DEF StreamTypeOK
    <3> QED
      BY <1>0, <2>1, <3>1
  <2>3. \A i \in 1..Len(socket') : i > Len(socket) => i \in New(socket, socket')
    BY DEF New
  <2>4. \A i \in 1..Len(socket') : i > Len(socket) =>
              MessageOK(socket'[i], i, r2[i], terminal', channel.at, counts.views)
    <3> SUFFICES ASSUME NEW i \in 1..Len(socket'), i > Len(socket)
                 PROVE  MessageOK(socket'[i], i, r2[i], terminal', channel.at, counts.views)
      OBVIOUS
    <3>1. /\ socket'[i].for = 0
          /\ socket'[i].kind = "output" \/ (socket'[i].kind = "exit" /\ i = Len(socket') /\ ~terminal'.alive)
      BY <2>1, <2>3
    <3>2. i = Len(socket') => r2[i] = terminal'.sent
      BY <2>2 DEF Flow
    <3>3. 0 <= counts.views
      BY <1>0 DEF StreamTypeOK
    <3> QED
      BY <1>0, <3>1, <3>2, <3>3 DEF MessageOK, ReplayKinds
  <2>5. ASSUME NEW v, v # 0 PROVE \A i \in New(socket, socket') : socket'[i].for # v
    BY <2>1, <2>5
  <2>6. ASSUME Shows, NoReplayFor(view.number, replays, socket) PROVE NoReplayFor(view.number, replays', socket')
    <3>1. view.number # 0 /\ \A i \in 1..Len(socket) : socket[i].for # view.number
      BY <2>6 DEF Shows, Viewed, NoReplayFor
    <3>2. \A i \in 1..Len(socket') : i \in New(socket, socket') \/ (i \in 1..Len(socket) /\ socket'[i] = socket[i])
      BY <1>0, <2>1 DEF Extends, New
    <3>3. \A i \in 1..Len(socket') : socket'[i].for # view.number
      BY <2>5, <3>1, <3>2
    <3> QED
      BY <2>6, <3>3 DEF NoReplayFor
  <2>7. ASSUME Shows, view.request = "pending"
        PROVE  \E cut \in Outputs :
                  /\ MailOK(socket', replays'[view.number].at, replays'[view.number].cut,
                            view.number, cut, r2)
                  /\ HeardOK(socket', replays'[view.number].at, view.number, cut, r2[0],
                             terminal'.sent, screen, view.buffer)
    <3>1. PICK cut \in Outputs : ReplayOK(view.number, cut, r)
      BY <2>7 DEF StreamAt, ViewOK, PendingOK
    <3> DEFINE v == view.number
               at == replays[v].at
               own == replays[v].cut
    <3>2. v # 0 /\ cut \in Nat /\ \A i \in New(socket, socket') : socket'[i].for # v
      BY <2>5, <2>7, StreamTypes DEF Shows, Viewed
    <3>3. /\ MailOK(socket, at, own, v, cut, r)
          /\ HeardOK(socket, at, v, cut, r[0], terminal.sent, screen, view.buffer)
      BY <3>1 DEF ReplayOK
    <3>4. r2[0] = r[0]
      BY <1>0, <2>1 DEF Extends
    <3>5. Extends(socket, r, socket', r2)
      BY <2>1
    <3> HIDE DEF v, at, own
    <3>6. MailOK(socket', at, own, v, cut, r2)
      BY <3>2, <3>3, <3>5, MailPasses
    <3>7. HeardOK(socket', at, v, cut, r2[0], terminal'.sent, screen, view.buffer)
      <4>1. HeardOK(socket', at, v, cut, r[0], terminal.printed, screen, view.buffer)
        BY <1>0, <3>2, <3>3, <3>5, HeardPasses
      <4> QED
        BY <3>4, <4>1
    <3> QED
      BY <3>6, <3>7 DEF v, at, own
  <2>8. StreamAt(r2)'
    <3>1. /\ UNCHANGED <<channel, recorded, view, screen, counts>>
          /\ terminal.sent <= terminal'.sent
          /\ \A v \in 1..MaxViews : replays'[v].at # "none" => replays[v].at # "none"
      BY <1>0
    <3>2. /\ StreamAt(r) /\ terminal.alive /\ Connected /\ Extends(socket, r, socket', r2)
          /\ StreamTypeOK' /\ terminal'.sent <= terminal'.printed
          /\ Flow(socket', terminal'.sent, r2)
      BY <1>2, <2>1, <2>2
    <3>3. /\ ~Connected => socket' = <<>>
          /\ Connected => Extends(socket, r, socket', r2)
          /\ ~terminal.alive => /\ ~terminal'.alive /\ terminal'.sent = terminal.sent
                                /\ terminal'.printed = terminal.printed
      BY <3>2
    <3>4. Shows /\ NoReplayFor(view.number, replays, socket) => NoReplayFor(view.number, replays', socket')
      BY <2>6
    <3>5. Shows /\ view.request = "pending" =>
             \E cut \in Outputs :
                /\ MailOK(socket', replays'[view.number].at, replays'[view.number].cut,
                          view.number, cut, r2)
                /\ HeardOK(socket', replays'[view.number].at, view.number, cut, r2[0],
                           terminal'.sent, screen, view.buffer)
      BY <2>7
    <3> QED
      BY ONLY <2>4, <3>1, <3>2, <3>3, <3>4, <3>5, WorkerStep
  <2> QED
    BY <2>8 DEF StreamInv
<1>3. CASE ~Connected
  <2>1. socket = <<>> /\ socket' = socket
    BY <1>3 DEF StreamAt, SocketOK, SendsToController
  <2>2. PICK r2 : Flow(<<>>, terminal.printed, r2) /\ r2[0] = terminal.printed
    BY <1>0, FlowEmpty
  <2>3. StreamTypeOK' /\ terminal'.sent <= terminal'.printed /\ Flow(socket', terminal'.sent, r2)
    <3>1. StreamTypeOK'
      BY <1>0, <2>1, WorkerTypes DEF StreamTypeOK
    <3> QED
      BY <1>0, <2>1, <2>2, <3>1
  <2>4. \A i \in 1..Len(socket') : i > Len(socket) =>
              MessageOK(socket'[i], i, r2[i], terminal', channel.at, counts.views)
    <3>1. Len(socket') = Len(socket) /\ Len(socket) \in Nat
      BY <1>0, <2>1
    <3> QED
      BY <3>1
  <2>5. Shows => ~(view.request = "pending")
    BY <1>3 DEF StreamAt, ViewOK, PendingOK
  <2>6. NoReplayFor(view.number, replays, socket) => NoReplayFor(view.number, replays', socket')
    BY <2>1 DEF NoReplayFor
  <2>7. StreamAt(r2)'
    <3>1. /\ UNCHANGED <<channel, recorded, view, screen, counts>>
          /\ terminal.sent <= terminal'.sent
          /\ \A v \in 1..MaxViews : replays'[v].at # "none" => replays[v].at # "none"
      BY <1>0
    <3> QED
      BY <1>3, <2>1, <2>3, <2>4, <2>5, <2>6, <3>1, WorkerStep
  <2> QED
    BY <2>7 DEF StreamInv
<1> QED
  BY <1>2, <1>3

LEMMA FlushesWorkerStep == StreamInv /\ FlushesWorker => StreamInv'
<1> SUFFICES ASSUME NEW r, StreamAt(r), FlushesWorker PROVE StreamInv'
  BY DEF StreamInv
<1>1. StreamTypeOK
  BY DEF StreamAt
<1>2. /\ terminal' \in [printed: Outputs, sent: Outputs, alive: BOOLEAN]
      /\ terminal'.printed = terminal.printed /\ terminal'.sent = terminal.printed
  BY <1>1 DEF FlushesWorker, StreamTypeOK
<1> QED
  BY <1>2, OutputStep DEF FlushesWorker

LEMMA TerminalExitsStep == StreamInv /\ TerminalExits => StreamInv'
<1> SUFFICES ASSUME NEW r, StreamAt(r), TerminalExits PROVE StreamInv'
  BY DEF StreamInv
<1>1. StreamTypeOK
  BY DEF StreamAt
<1>2. /\ terminal' \in [printed: Outputs, sent: Outputs, alive: BOOLEAN] /\ ~terminal'.alive
      /\ terminal'.printed = terminal.printed /\ terminal'.sent = terminal.printed
  BY <1>1 DEF TerminalExits, StreamTypeOK
<1> QED
  BY <1>2, OutputStep DEF TerminalExits
\* A replay goes on: its next message is the last one added
ReplayMove(r, v, t, r2, m, to) ==
    /\ StreamAt(r) /\ v \in 1..MaxViews /\ m \in WorkerMessage /\ to \in Replay
    /\ UNCHANGED <<channel, recorded, view, screen, counts>>
    /\ t \in Seq(WorkerMessage) /\ Flow(t, terminal'.sent, r2) /\ Extends(socket, r, t, r2)
    /\ Len(socket) < Len(t) /\ t[Len(t)] = m
    /\ \A i \in New(socket, t) : i = Len(t) \/ (t[i].for = 0 /\ t[i].kind = "output")
    /\ m.for = v /\ m.kind \in ReplayKinds
    /\ m.kind = "end" \/ m.kind = "reply" => m.last = replays[v].cut
    /\ terminal' \in [printed: Outputs, sent: Outputs, alive: BOOLEAN]
    /\ terminal'.printed = terminal.printed /\ terminal.sent <= terminal'.sent
    /\ terminal'.sent <= terminal'.printed /\ terminal'.alive = terminal.alive
    /\ ~terminal.alive => terminal'.sent = terminal.sent
    /\ socket' = IF Connected THEN t ELSE socket
    /\ replays' = [replays EXCEPT ![v] = to]
    /\ \/ /\ replays[v].at = "asked" /\ m.kind = "begin" /\ to.at = "begun" /\ to.cut = terminal'.sent
       \/ /\ replays[v].at = "begun" /\ m.kind = "end" /\ to.at = "ended" /\ to.cut = replays[v].cut
       \/ /\ replays[v].at = "ended" /\ m.kind = "reply" /\ to.at = "none"
       \/ /\ replays[v].at = "asked" /\ m.kind = "gone" /\ to.at = "none"

LEMMA ReplayMoves ==
    ASSUME NEW r, NEW v, NEW t, NEW r2, NEW m, NEW to, ReplayMove(r, v, t, r2, m, to)
    PROVE  StreamInv'
<1> USE DEF ReplayMove
<1> v \in 1..MaxViews /\ m \in WorkerMessage /\ to \in Replay
  OBVIOUS
<1> DEFINE old == replays[v]
<1>0. /\ StreamTypeOK /\ terminal.sent \in Nat /\ terminal'.sent \in Nat
      /\ Flow(socket, terminal.sent, r) /\ Len(socket) \in Nat /\ socket \in Seq(WorkerMessage)
      /\ Len(t) \in Nat /\ terminal.sent <= terminal.printed
  BY StreamTypes DEF StreamAt, StreamTypeOK
<1>1. replays \in [1..MaxViews -> Replay] /\ v \in Nat /\ v # 0
  BY StreamTypes DEF StreamAt, StreamTypeOK
<1>2. replays'[v] = to /\ \A w \in 1..MaxViews : w # v => replays'[w] = replays[w]
  BY <1>1
<1>3. \A w \in 1..MaxViews : replays'[w].at # "none" => replays[w].at # "none"
  BY <1>2
<1>4. replays[v].at # "none" /\ v <= counts.views
  <2>1. NumbersOK
    BY DEF StreamAt
  <2> QED
    BY <2>1 DEF NumbersOK
<1>5. replays' \in [1..MaxViews -> Replay]
  BY <1>1
<1>8. Shows => view.number \in 1..MaxViews /\ view.number # 0
  <2>1. view \in View
    BY <1>0 DEF StreamTypeOK
  <2>2. view.number \in 0..MaxViews
    BY ONLY <2>1 DEF View
  <2> QED
    BY ONLY <2>2, StreamTypes DEF Shows, Viewed
<1>6. CASE Connected
  <2>1. socket' = t
    BY <1>6
  <2>2. StreamTypeOK' /\ Flow(socket', terminal'.sent, r2)
    BY <1>0, <1>5, <2>1, WorkerTypes
  <2>3. ASSUME NEW i \in 1..Len(socket'), i > Len(socket)
        PROVE  MessageOK(socket'[i], i, r2[i], terminal', channel.at, counts.views)
    <3>1. i \in New(socket, t)
      BY <2>1, <2>3 DEF New
    <3>2. 0 <= counts.views
      BY <1>0 DEF StreamTypeOK
    <3> QED
      BY <1>0, <1>1, <1>4, <2>1, <3>1, <3>2 DEF MessageOK, ReplayKinds
  <2>4. ASSUME Shows, NoReplayFor(view.number, replays, socket)
        PROVE  NoReplayFor(view.number, replays', socket')
    <3>1. view.number \in 1..MaxViews /\ view.number # 0
      BY ONLY <1>8, <2>4
    <3>2. view.number # v /\ replays[view.number].at = "none"
          /\ \A i \in 1..Len(socket) : socket[i].for # view.number
      BY <1>4, <2>4 DEF NoReplayFor
    <3>3. \A i \in 1..Len(t) : i \in New(socket, t) \/ (i \in 1..Len(socket) /\ t[i] = socket[i])
      BY <1>0 DEF Extends, New
    <3>4. \A i \in 1..Len(t) : t[i].for # view.number
      BY <3>1, <3>2, <3>3
    <3> QED
      BY <1>2, <2>1, <3>1, <3>2, <3>4 DEF NoReplayFor
  <2>5. ASSUME Shows, view.request = "pending"
        PROVE  \E cut \in Outputs :
                  /\ MailOK(socket', replays'[view.number].at, replays'[view.number].cut,
                            view.number, cut, r2)
                  /\ HeardOK(socket', replays'[view.number].at, view.number, cut, r2[0],
                             terminal'.sent, screen, view.buffer)
    <3>1. PICK cut \in Outputs : ReplayOK(view.number, cut, r)
      BY <2>5 DEF StreamAt, ViewOK, PendingOK
    <3> DEFINE w == view.number
               at == replays[w].at
               own == replays[w].cut
    <3>2. w # 0 /\ cut \in Nat /\ w \in 1..MaxViews
      <4>1. cut \in Nat
        BY StreamTypes
      <4> QED
        BY <1>8, <2>5, <4>1
    <3>3. /\ MailOK(socket, at, own, w, cut, r)
          /\ HeardOK(socket, at, w, cut, r[0], terminal.sent, screen, view.buffer)
      BY <3>1 DEF ReplayOK
    <3>4. r2[0] = r[0]
      BY <1>0 DEF Extends
    <3>5. CASE w # v
      <4>1. \A i \in New(socket, t) : t[i].for # w
        BY <3>2, <3>5
      <4>2. replays'[w].at = at /\ replays'[w].cut = own
        BY <1>2, <3>2, <3>5
      <4> HIDE DEF w, at, own
      <4>3. MailOK(t, at, own, w, cut, r2)
        BY <3>3, <4>1, MailPasses
      <4>4. HeardOK(t, at, w, cut, r2[0], terminal'.sent, screen, view.buffer)
        <5>1. HeardOK(t, at, w, cut, r[0], terminal'.sent, screen, view.buffer)
          BY <1>0, <3>2, <3>3, <4>1, HeardPasses
        <5> QED
          BY <3>4, <5>1
      <4> QED
        BY <2>1, <4>2, <4>3, <4>4 DEF w
    <3>6. CASE w = v
      <4> DEFINE cut2 == IF m.kind = "begin" THEN terminal'.sent ELSE cut
      <4>1. cut2 \in Outputs /\ at = old.at /\ own = old.cut /\ replays'[w] = to
        BY <1>2, <3>6
      <4>2. at # "asked" => ~ (at = "none")
        BY <1>4, <3>6
      <4>3. at \in {"begun", "ended"} => own = cut
        BY <3>3 DEF MailOK
      <4>4. \A i \in New(socket, t) : i # Len(t) => t[i].for # w
        BY <3>2
      <4>5. r2[Len(t)] = terminal'.sent
        BY DEF Flow
      <4>6. MailOK(t, to.at, to.cut, w, cut2, r2)
        <5> DEFINE at2 == to.at
                   own2 == to.cut
        <5>1. t[Len(t)].for = w /\ t[Len(t)].kind = m.kind
          BY <3>6
        <5>2. \/ /\ at = "asked" /\ at2 = "begun" /\ t[Len(t)].kind = "begin" /\ own2 = cut2
                 /\ r2[Len(t)] = cut2
              \/ /\ at = "begun" /\ at2 = "ended" /\ t[Len(t)].kind = "end" /\ own2 = cut2
                 /\ cut2 = cut /\ t[Len(t)].last = cut
              \/ /\ at = "ended" /\ at2 = "none" /\ t[Len(t)].kind = "reply"
                 /\ cut2 = cut /\ t[Len(t)].last = cut
              \/ at = "asked" /\ at2 = "none" /\ t[Len(t)].kind = "gone"
          BY <4>1, <4>3, <4>5, <5>1
        <5>3. Extends(socket, r, t, r2) /\ Len(socket) < Len(t) /\ MailOK(socket, at, own, w, cut, r)
          BY <3>3
        <5> HIDE DEF w, at, own, cut2, at2, own2
        <5>4. MailOK(t, at2, own2, w, cut2, r2)
          <6>1. Arrives(socket, r, t, r2, w, at, own, cut, at2, own2, cut2)
            BY ONLY <4>4, <5>1, <5>2, <5>3 DEF Arrives
          <6> QED
            BY <6>1, MailArrives
        <5> QED
          BY <5>4 DEF at2, own2
      <4>7. HeardOK(t, to.at, w, cut2, r2[0], terminal'.sent, screen, view.buffer)
        <5>1. Len(t) \in 1..Len(t) /\ t[Len(t)] = m
          BY <1>0
        <5>2. m.kind = "gone" => Carries(t, w, "gone")
          BY <3>6, <5>1 DEF Carries
        <5>3. \A kind : Carries(socket, w, kind) => Carries(t, w, kind)
          <6> SUFFICES ASSUME NEW kind, NEW i \in 1..Len(socket), socket[i].for = w, socket[i].kind = kind
                       PROVE  Carries(t, w, kind)
            BY DEF Carries
          <6>1. i \in 1..Len(t) /\ t[i] = socket[i]
            BY <1>0 DEF Extends
          <6> QED
            BY <6>1 DEF Carries
        <5>4. CASE m.kind = "begin"
          <6>1. Carries(t, w, "begin")
            BY <3>6, <5>1, <5>4 DEF Carries
          <6>2. r[0] \in Nat /\ r[0] <= terminal.sent
            <7>1. 0 \in 0..Len(socket) /\ Len(socket) \in 0..Len(socket) /\ 0 <= Len(socket)
              BY <1>0
            <7> QED
              BY <1>0, <7>1 DEF Flow
          <6>3. \A i \in 1..Len(view.buffer) : view.buffer[i].last <= terminal'.sent
            <7> SUFFICES ASSUME NEW i \in 1..Len(view.buffer) PROVE view.buffer[i].last <= terminal'.sent
              OBVIOUS
            <7>1. view.buffer[i].last <= r[0]
              BY <2>5 DEF StreamAt, ViewOK, NeedyOK
            <7>2. view.buffer[i].last \in Nat
              <8>1. view.buffer[i] \in Chunk
                BY <1>0 DEF StreamTypeOK, View
              <8> QED
                BY <8>1, StreamTypes DEF Chunk
            <7> QED
              BY <1>0, <6>2, <7>1, <7>2
          <6>4. Beyond(terminal'.sent, view.buffer, r2[0])
            <7> DEFINE b == view.buffer
            <7>1. Len(b) \in Nat
              BY <1>0 DEF StreamTypeOK, View
            <7>2. Len(b) \in 0..Len(b) /\ \A i \in Len(b) + 1..Len(b) : FALSE
              BY <7>1
            <7>3. r2[0] <= terminal'.sent
              BY <1>0, <3>4, <6>2
            <7> QED
              BY <6>3, <7>2, <7>3 DEF Beyond
          <6> QED
            BY <1>0, <5>4, <6>1, <6>4 DEF HeardOK
        <5>5. CASE m.kind \in {"end", "reply"}
          <6>1. to.at # "begun" /\ at # "asked" /\ at # "none" /\ cut2 = cut /\ (m.kind = "end" => at = "begun")
                /\ (m.kind = "reply" => at = "ended")
            BY <3>6, <5>5
          <6>2. m.kind = "end" => Carries(t, w, "end")
            BY <3>6, <5>1 DEF Carries
          <6>3. CASE Carries(t, w, "gone")
            BY <6>3 DEF HeardOK
          <6>4. CASE ~Carries(t, w, "gone")
            <7>1. ~Carries(socket, w, "gone")
              BY <5>3, <6>4
            <7>2. /\ cut <= terminal.sent /\ Beyond(cut, view.buffer, r[0])
                  /\ ~Carries(socket, w, "begin") => cut <= r[0]
                  /\ at # "begun" /\ ~Carries(socket, w, "end") => AtCut(screen, cut)
              BY <3>3, <6>1, <7>1 DEF HeardOK
            <7>3. cut <= terminal'.sent
              BY <1>0, <3>2, <7>2
            <7> QED
              BY <3>4, <5>3, <5>5, <6>1, <6>2, <7>2, <7>3 DEF HeardOK
          <6> QED
            BY <6>3, <6>4
        <5>6. CASE m.kind = "gone"
          BY <5>2, <5>6 DEF HeardOK
        <5> QED
          BY <5>4, <5>5, <5>6 DEF ReplayKinds
      <4> QED
        BY <2>1, <4>1, <4>6, <4>7
    <3> QED
      BY <3>5, <3>6
  <2>6. StreamAt(r2)'
    BY <1>0, <1>3, <1>6, <2>1, <2>2, <2>3, <2>4, <2>5, WorkerStep
  <2> QED
    BY <2>6 DEF StreamInv
<1>7. CASE ~Connected
  <2>1. socket = <<>> /\ socket' = <<>>
    BY <1>7 DEF StreamAt, SocketOK
  <2>2. PICK r3 : Flow(<<>>, terminal'.sent, r3) /\ r3[0] = terminal'.sent
    BY <1>0, FlowEmpty
  <2>3. StreamTypeOK' /\ Flow(socket', terminal'.sent, r3)
    <3>1. socket' \in Seq(WorkerMessage)
      BY <1>0, <2>1
    <3> QED
      BY <1>0, <1>5, <2>1, <2>2, <3>1, WorkerTypes
  <2>4. \A i \in 1..Len(socket') : i > Len(socket) =>
           MessageOK(socket'[i], i, r3[i], terminal', channel.at, counts.views)
    <3>1. Len(socket') = Len(socket) /\ Len(socket) \in Nat
      BY <1>0, <2>1
    <3> QED
      BY <3>1
  <2>5. Shows => ~(view.request = "pending")
    BY <1>7 DEF StreamAt, ViewOK, PendingOK
  <2>6. Shows /\ NoReplayFor(view.number, replays, socket) => NoReplayFor(view.number, replays', socket')
    <3>1. Shows => view.number \in 1..MaxViews
      BY ONLY <1>8
    <3> QED
      BY <1>2, <1>4, <2>1, <3>1 DEF NoReplayFor
  <2>7. StreamAt(r3)'
    BY <1>0, <1>3, <1>7, <2>1, <2>3, <2>4, <2>5, <2>6, WorkerStep
  <2> QED
    BY <2>7 DEF StreamInv
<1> QED
  BY <1>6, <1>7
LEMMA StartsReplayStep ==
    ASSUME NEW v \in 1..MaxViews, StreamInv, StartsReplay(v) PROVE StreamInv'
<1> PICK r : StreamAt(r)
  BY DEF StreamInv
<1> DEFINE m == Says("begin", v, 0, 0)
           to == [at |-> "begun", cut |-> terminal.printed]
<1>1. /\ StreamTypeOK /\ terminal.sent <= terminal.printed /\ Flow(socket, terminal.sent, r)
      /\ terminal.sent \in Nat /\ terminal.printed \in Nat /\ terminal.printed \in Outputs
  BY StreamTypes DEF StreamAt, StreamTypeOK
<1>2. m \in WorkerMessage /\ m.kind = "begin" /\ m.for = v /\ m.kind # "output"
  BY StreamTypes DEF Says, WorkerMessage
<1>3. to \in Replay /\ to.at = "begun" /\ to.cut = terminal.printed /\ replays' = [replays EXCEPT ![v] = to]
  BY <1>1 DEF Replay, StartsReplay
<1>4. socket' = IF Connected THEN socket \o Append(Held, m) ELSE socket
  BY DEF SendsToController, StartsReplay
<1>5. /\ terminal' \in [printed: Outputs, sent: Outputs, alive: BOOLEAN]
      /\ terminal'.printed = terminal.printed /\ terminal'.sent = terminal.printed
      /\ terminal'.alive = terminal.alive /\ terminal.alive
  BY <1>1 DEF StreamTypeOK, StartsReplay
<1> HIDE DEF m, to
<1>6. PICK t, r2 :
              /\ t \in Seq(WorkerMessage) /\ t = socket \o Append(Held, m)
              /\ Flow(t, terminal.printed, r2) /\ Extends(socket, r, t, r2)
              /\ Len(socket) < Len(t) /\ t[Len(t)] = m
              /\ \A i \in New(socket, t) :
                    i = Len(t) \/ (t[i].for = 0 /\ t[i].kind = "output")
  BY <1>1, <1>2, HeldAndMoreFlow
<1>7. /\ m.kind \in ReplayKinds
      /\ m.kind = "end" \/ m.kind = "reply" => m.last = replays[v].cut
      /\ replays[v].at = "asked" /\ m.kind = "begin" /\ to.at = "begun" /\ to.cut = terminal'.sent
      /\ terminal.sent <= terminal'.sent /\ terminal'.sent <= terminal'.printed
      /\ Flow(t, terminal'.sent, r2) /\ socket' = IF Connected THEN t ELSE socket
      /\ ~terminal.alive => terminal'.sent = terminal.sent
      /\ UNCHANGED <<channel, recorded, view, screen, counts>>
  BY <1>1, <1>2, <1>3, <1>4, <1>5, <1>6 DEF ReplayKinds, StartsReplay
<1>8. ReplayMove(r, v, t, r2, m, to)
  BY <1>2, <1>3, <1>5, <1>6, <1>7 DEF ReplayMove
<1> QED
  BY <1>8, ReplayMoves

LEMMA EndsReplayStep ==
    ASSUME NEW v \in 1..MaxViews, StreamInv, EndsReplay(v) PROVE StreamInv'
<1> PICK r : StreamAt(r)
  BY DEF StreamInv
<1> DEFINE old == replays[v]
<1>1. /\ StreamTypeOK /\ terminal.sent <= terminal.printed /\ Flow(socket, terminal.sent, r)
      /\ terminal.sent \in Nat /\ terminal.printed \in Nat
      /\ replays \in [1..MaxViews -> Replay] /\ old \in Replay /\ old.cut \in Outputs
  BY StreamTypes DEF StreamAt, StreamTypeOK, Replay
<1>2. PICK m \in WorkerMessage, to \in Replay :
        /\ m.for = v /\ m.kind \in ReplayKinds /\ m.kind # "output"
        /\ m.kind = "end" \/ m.kind = "reply" => m.last = old.cut
        /\ SendsToController(<<m>>) /\ replays' = [replays EXCEPT ![v] = to]
        /\ \/ /\ old.at = "asked" /\ m.kind = "begin" /\ to.at = "begun" /\ to.cut = terminal'.sent
           \/ /\ old.at = "begun" /\ m.kind = "end" /\ to.at = "ended" /\ to.cut = old.cut
           \/ /\ old.at = "ended" /\ m.kind = "reply" /\ to.at = "none"
           \/ /\ old.at = "asked" /\ m.kind = "gone" /\ to.at = "none"
  <2>1. CASE /\ replays[v].at = "begun"
             /\ SendsToController(<<Says("end", v, 0, replays[v].cut)>>)
             /\ replays' = [replays EXCEPT ![v].at = "ended"]
    <3> DEFINE m == Says("end", v, 0, old.cut)
               to == [old EXCEPT !.at = "ended"]
    <3>1. m \in WorkerMessage /\ m.for = v /\ m.kind = "end" /\ m.last = old.cut
      BY <1>1, StreamTypes DEF Says, WorkerMessage
    <3>2. to \in Replay /\ to.at = "ended" /\ to.cut = old.cut
      BY <1>1 DEF Replay
    <3>3. replays' = [replays EXCEPT ![v] = to]
      BY <1>1, <2>1
    <3>4. SendsToController(<<m>>) /\ old.at = "begun"
      BY <2>1
    <3> HIDE DEF m, to
    <3> QED
      BY <3>1, <3>2, <3>3, <3>4 DEF ReplayKinds
  <2>2. CASE /\ replays[v].at = "ended"
             /\ SendsToController(<<Says("reply", v, 0, replays[v].cut)>>)
             /\ replays' = [replays EXCEPT ![v] = NoReplay]
    <3> DEFINE m == Says("reply", v, 0, old.cut)
    <3>1. m \in WorkerMessage /\ m.for = v /\ m.kind = "reply" /\ m.last = old.cut
      BY <1>1, StreamTypes DEF Says, WorkerMessage
    <3>2. NoReplay \in Replay /\ NoReplay.at = "none"
      BY StreamTypes DEF Replay, NoReplay
    <3>4. SendsToController(<<m>>) /\ old.at = "ended"
      BY <2>2
    <3> HIDE DEF m
    <3> QED
      BY <2>2, <3>1, <3>2, <3>4 DEF ReplayKinds
  <2>3. CASE /\ replays[v].at = "asked" /\ ~terminal.alive
             /\ SendsToController(<<Says("gone", v, 0, 0)>>)
             /\ replays' = [replays EXCEPT ![v] = NoReplay]
    <3> DEFINE m == Says("gone", v, 0, 0)
    <3>1. m \in WorkerMessage /\ m.for = v /\ m.kind = "gone"
      BY <1>1, StreamTypes DEF Says, WorkerMessage
    <3>2. NoReplay \in Replay /\ NoReplay.at = "none"
      BY StreamTypes DEF Replay, NoReplay
    <3>4. SendsToController(<<m>>) /\ old.at = "asked"
      BY <2>3
    <3> HIDE DEF m
    <3> QED
      BY <2>3, <3>1, <3>2, <3>4 DEF ReplayKinds
  <2> QED
    BY <2>1, <2>2, <2>3 DEF EndsReplay
<1>3. PICK t, r2 :
              /\ t \in Seq(WorkerMessage) /\ t = socket \o <<m>>
              /\ Flow(t, terminal.sent, r2) /\ Extends(socket, r, t, r2)
              /\ Len(socket) < Len(t) /\ t[Len(t)] = m
              /\ \A i \in New(socket, t) : i = Len(t)
  BY <1>1, <1>2, MessageFlows
<1>4. /\ UNCHANGED <<channel, recorded, view, screen, counts>> /\ terminal' = terminal
  BY DEF EndsReplay
<1>40. SendsToController(<<m>>)
  BY <1>2
<1>41. socket' = IF Connected THEN t ELSE socket
  BY ONLY <1>40, <1>3 DEF SendsToController
<1>5. /\ \A i \in New(socket, t) : i = Len(t) \/ (t[i].for = 0 /\ t[i].kind = "output")
      /\ terminal' \in [printed: Outputs, sent: Outputs, alive: BOOLEAN]
      /\ terminal'.printed = terminal.printed /\ terminal.sent <= terminal'.sent
      /\ terminal'.sent <= terminal'.printed /\ terminal'.alive = terminal.alive
      /\ ~terminal.alive => terminal'.sent = terminal.sent
      /\ Flow(t, terminal'.sent, r2)
      /\ socket' = IF Connected THEN t ELSE socket
  <2>1. terminal \in [printed: Outputs, sent: Outputs, alive: BOOLEAN]
    BY <1>1 DEF StreamTypeOK
  <2>2. \A i \in New(socket, t) : i = Len(t)
    BY ONLY <1>3
  <2>3. Flow(t, terminal'.sent, r2)
    BY <1>3, <1>4
  <2> QED
    BY ONLY <1>1, <1>4, <1>41, <2>1, <2>2, <2>3
<1>6. ReplayMove(r, v, t, r2, m, to)
  BY <1>2, <1>3, <1>4, <1>5 DEF ReplayMove
<1> QED
  BY <1>6, ReplayMoves
-----------------------------------------------------------------------------
(* The daemon's steps that leave the messages alone *)

\* What the invariant says of the types, for reference in the steps
LEMMA StreamFacts ==
    ASSUME NEW r, StreamAt(r)
    PROVE  /\ StreamTypeOK /\ terminal.sent <= terminal.printed /\ Flow(socket, terminal.sent, r)
           /\ SocketOK(r) /\ NumbersOK /\ EndOK /\ ViewOK(r)
           /\ terminal.sent \in Nat /\ terminal.printed \in Nat /\ socket \in Seq(WorkerMessage)
           /\ Len(socket) \in Nat /\ r[0] \in Nat /\ r[0] <= terminal.sent
           /\ view \in View /\ screen \in Screen /\ replays \in [1..MaxViews -> Replay]
           /\ view.number \in 0..MaxViews /\ counts.views \in Nat
           /\ view.buffer \in Seq(Chunk) /\ view.out \in Seq(Chunk) /\ view.skipped \in Seq(Chunk)
           /\ view.cut \in Outputs
<1>1. /\ StreamTypeOK /\ terminal.sent <= terminal.printed /\ Flow(socket, terminal.sent, r)
      /\ SocketOK(r) /\ NumbersOK /\ EndOK /\ ViewOK(r)
  BY DEF StreamAt
<1>2. /\ terminal.sent \in Nat /\ terminal.printed \in Nat /\ socket \in Seq(WorkerMessage)
      /\ Len(socket) \in Nat /\ view \in View /\ screen \in Screen
      /\ replays \in [1..MaxViews -> Replay] /\ counts.views \in Nat
  BY <1>1, StreamTypes DEF StreamTypeOK, Screen
<1>3. r[0] \in Nat /\ r[0] <= terminal.sent
  <2>1. 0 \in 0..Len(socket) /\ Len(socket) \in 0..Len(socket) /\ 0 <= Len(socket)
    BY <1>2
  <2> QED
    BY <1>1, <2>1 DEF Flow
<1>4. /\ view.number \in 0..MaxViews /\ view.cut \in Outputs
      /\ view.buffer \in Seq(Chunk) /\ view.out \in Seq(Chunk) /\ view.skipped \in Seq(Chunk)
  BY ONLY <1>2 DEF View
<1> QED
  BY <1>1, <1>2, <1>3, <1>4

LEMMA SocketStays ==
    ASSUME NEW r, StreamAt(r), UNCHANGED <<terminal, socket, channel>>, counts'.views \in Nat,
           counts.views <= counts'.views
    PROVE  SocketOK(r)'
<1>1. SocketOK(r) /\ counts.views \in Nat /\ socket \in Seq(WorkerMessage)
  BY StreamFacts
<1>2. ASSUME NEW i \in 1..Len(socket)
      PROVE  MessageOK(socket[i], i, r[i], terminal, channel.at, counts'.views)
  <2>1. MessageOK(socket[i], i, r[i], terminal, channel.at, counts.views)
    BY <1>1 DEF SocketOK
  <2>2. socket[i].for \in Nat
    <3>1. socket[i] \in WorkerMessage
      BY <1>1
    <3> QED
      BY <3>1, StreamTypes DEF WorkerMessage
  <2> QED
    BY <1>1, <2>1, <2>2 DEF MessageOK
<1> QED
  BY <1>1, <1>2 DEF SocketOK, Connected

\* No viewer
LEMMA NoViewIs == NoView \in View /\ NoView.number = 0 /\ NoView.request = "none" /\ NoView.exiting = "no"
BY StreamTypes DEF NoView, NewView, View, Outputs

LEMMA Leaves ==
    ASSUME NEW r, StreamAt(r), view' = NoView, UNCHANGED <<terminal, replays, socket, channel>>,
           StreamTypeOK', counts'.views = counts.views,
           screen'.closed => /\ ~recorded' /\ ~terminal.alive
                             /\ screen'.exact /\ ~screen'.replaying => screen'.shown = terminal.printed
    PROVE  StreamAt(r)'
<1>1. ~Viewed' /\ ~Shows' /\ view'.request = "none" /\ view'.exiting = "no" /\ view'.number = 0
  BY NoViewIs DEF Viewed, Shows
<1>2. SocketOK(r)'
  BY StreamFacts, SocketStays
<1>3. NumbersOK'
  BY <1>1, StreamFacts DEF NumbersOK
<1>4. EndOK' /\ ViewOK(r)'
  BY <1>1 DEF EndOK, ViewOK
<1>5. (terminal.sent <= terminal.printed)' /\ Flow(socket', terminal'.sent, r)
  BY StreamFacts
<1> QED
  BY <1>2, <1>3, <1>4, <1>5 DEF StreamAt

LEMMA DetachesStep == StreamInv /\ Detaches => StreamInv'
<1> SUFFICES ASSUME NEW r, StreamAt(r), Detaches PROVE StreamAt(r)'
  BY DEF StreamInv
<1>1. StreamTypeOK'
  BY StreamFacts, NoViewIs DEF Detaches, Releases, StreamTypeOK
<1>2. EndOK
  BY StreamFacts
<1> QED
  BY <1>1, <1>2, Leaves DEF Detaches, Releases, EndOK

LEMMA RequestTimesOutStep == StreamInv /\ RequestTimesOut => StreamInv'
<1> SUFFICES ASSUME NEW r, StreamAt(r), RequestTimesOut PROVE StreamAt(r)'
  BY DEF StreamInv
<1> USE DEF RequestTimesOut
<1>1. /\ view' \in View /\ view'.request = "failed" /\ view'.number = view.number
      /\ view'.needs = view.needs /\ view'.buffer = view.buffer /\ view'.out = view.out
      /\ view'.skipped = view.skipped /\ view'.exiting = view.exiting /\ view'.restored = view.restored
  BY StreamFacts DEF View
<1>2. counts' \in [views: 0..MaxViews, cuts: 0..MaxCuts, pressures: 0..MaxPressures,
                   timeouts: 0..MaxTimeouts] /\ counts'.views = counts.views
  <2>1. counts \in [views: 0..MaxViews, cuts: 0..MaxCuts, pressures: 0..MaxPressures,
                   timeouts: 0..MaxTimeouts]
    BY StreamFacts DEF StreamTypeOK
  <2>2. counts.timeouts + 1 \in 0..MaxTimeouts
    BY <2>1, StreamTypes
  <2> QED
    BY <2>1, <2>2
<1>3. StreamTypeOK'
  BY <1>1, <1>2, StreamFacts DEF StreamTypeOK
<1>4. SocketOK(r)'
  BY <1>2, StreamFacts, SocketStays
<1>5. NumbersOK' /\ EndOK'
  BY <1>1, <1>2, StreamFacts DEF NumbersOK, EndOK, Viewed
<1>6. ViewOK(r)'
  <2> SUFFICES ASSUME Shows' PROVE (LiveOK(r) /\ NeedyOK(r) /\ PendingOK(r) /\ ResolvedOK(r) /\ SkippedOK(r) /\ ExitOK(r))'
    BY DEF ViewOK
  <2>1. Shows /\ ViewOK(r)
    BY <1>1, StreamFacts DEF Shows, Viewed
  <2>2. LiveOK(r) /\ NeedyOK(r) /\ PendingOK(r) /\ ResolvedOK(r) /\ SkippedOK(r) /\ ExitOK(r)
    BY <2>1 DEF ViewOK
  <2>3. view.needs /\ view.request = "pending"
    BY <2>2 DEF LiveOK
  <2>4. LiveOK(r)' /\ NeedyOK(r)' /\ PendingOK(r)' /\ ResolvedOK(r)'
    BY <1>1, <2>2, <2>3 DEF LiveOK, NeedyOK, PendingOK, ResolvedOK
  <2>5. SkippedOK(r)' /\ ExitOK(r)'
    BY <1>1, <2>2 DEF SkippedOK, ExitOK, Settled
  <2> QED
    BY <2>4, <2>5
<1>7. (terminal.sent <= terminal.printed)' /\ Flow(socket', terminal'.sent, r)
  BY StreamFacts
<1> QED
  BY <1>3, <1>4, <1>5, <1>6, <1>7 DEF StreamAt

LEMMA CompletesStep == StreamInv /\ CompletesStream => StreamInv'
<1> SUFFICES ASSUME NEW r, StreamAt(r), CompletesStream PROVE StreamAt(r)'
  BY DEF StreamInv
<1> DEFINE rest == view.out \o view.skipped \o view.buffer
           drawn == DrawnAll(screen, rest)
<1>0. /\ view.buffer \in Seq(Chunk) /\ view.out \in Seq(Chunk) /\ view.skipped \in Seq(Chunk)
      /\ screen \in Screen /\ StreamTypeOK /\ EndOK /\ ViewOK(r)
  BY StreamFacts
<1>1. rest \in Seq(Chunk)
  BY <1>0
<1>2. drawn \in Screen
  BY <1>0, <1>1, DrawnAllIs
<1>3. /\ screen' = [drawn EXCEPT !.closed = view.exiting = "exit" /\ view.restored]
      /\ view' = NoView /\ UNCHANGED <<terminal, replays, socket, channel, recorded, counts>>
      /\ Viewed /\ view.exiting # "no" /\ view.request = "none"
  BY DEF CompletesStream, Releases, SnapshotInFlight
<1>4. ASSUME view.exiting = "exit", view.restored, drawn.exact, ~drawn.replaying
      PROVE  drawn.shown = terminal.printed
  <2>1. LiveOK(r) /\ NeedyOK(r) /\ SkippedOK(r) /\ ExitOK(r)
    BY <1>0, <1>3, <1>4 DEF ViewOK, Shows
  <2>2. r[0] = terminal.printed /\ Settled
    BY <1>4, <2>1 DEF ExitOK, Settled
  <2>3. CASE ~view.needs
    <3>1. view.buffer = <<>> /\ view.skipped = <<>> /\ ~screen.replaying
          /\ screen.exact /\ Chain(screen.shown, view.out, r[0])
      BY <2>1, <2>2, <2>3 DEF LiveOK
    <3>2. rest = view.out
      BY <1>0, <3>1
    <3> QED
      BY <1>0, <2>2, <3>1, <3>2, DrawnChain
  <2>4. CASE view.needs
    <3>1. /\ view.out = <<>> /\ view.skipped # <<>>
          /\ r[0] = IF view.buffer # <<>> THEN view.buffer[Len(view.buffer)].last
                    ELSE view.skipped[Len(view.skipped)].last
      BY <1>4, <2>1, <2>2, <2>4 DEF NeedyOK, SkippedOK
    <3> DEFINE s == view.skipped
               b == view.buffer
    <3>2. s \in Seq(Chunk) /\ b \in Seq(Chunk) /\ rest = s \o b /\ s # <<>>
      BY <1>0, <3>1
    <3>3. r[0] = IF b # <<>> THEN b[Len(b)].last ELSE s[Len(s)].last
      BY <3>1
    <3> HIDE DEF rest, drawn, s, b
    <3>4. rest # <<>> /\ rest[Len(rest)].last = r[0]
      <4>1. /\ Len(rest) = Len(s) + Len(b) /\ Len(s) \in Nat \ {0} /\ Len(b) \in Nat
            /\ (b # <<>> <=> Len(b) # 0)
            /\ \A i \in 1..Len(s) : rest[i] = s[i]
            /\ \A i \in 1..Len(b) : rest[Len(s) + i] = b[i]
        BY <3>2
      <4>2. CASE b = <<>>
        <5>1. Len(rest) = Len(s) /\ Len(s) \in 1..Len(s)
          BY <4>1, <4>2
        <5>2. rest[Len(rest)] = s[Len(s)]
          BY <4>1, <5>1
        <5> QED
          BY <1>1, <3>3, <4>1, <4>2, <5>1, <5>2
      <4>3. CASE b # <<>>
        <5>1. Len(b) \in 1..Len(b)
          BY <4>1, <4>3
        <5>2. rest[Len(rest)] = b[Len(b)] /\ Len(rest) # 0
          BY <4>1, <5>1
        <5> QED
          BY <1>1, <3>3, <4>3, <5>2
      <4> QED
        BY <4>2, <4>3
    <3>5. drawn.shown = rest[Len(rest)].last
      BY <1>0, <1>1, <1>4, <3>4, DrawnAllIs DEF drawn
    <3> QED
      BY <2>2, <3>4, <3>5
  <2> QED
    BY <2>3, <2>4
<1> HIDE DEF drawn, rest
<1>5. /\ screen' \in Screen /\ screen'.exact = drawn.exact /\ screen'.replaying = drawn.replaying
      /\ screen'.shown = drawn.shown /\ screen'.closed = (view.exiting = "exit" /\ view.restored)
  BY <1>2, <1>3 DEF Screen
<1>6. StreamTypeOK'
  BY <1>0, <1>3, <1>5, NoViewIs DEF StreamTypeOK, Screen
<1>7. screen'.closed => /\ ~recorded' /\ ~terminal.alive
                        /\ screen'.exact /\ ~screen'.replaying => screen'.shown = terminal.printed
  <2> SUFFICES ASSUME view.exiting = "exit", view.restored
               PROVE  /\ ~recorded' /\ ~terminal.alive
                      /\ screen'.exact /\ ~screen'.replaying => screen'.shown = terminal.printed
    BY <1>5
  <2>1. ExitOK(r) /\ ~recorded
    BY <1>0, <1>3 DEF ViewOK, Shows, EndOK
  <2>2. ~terminal.alive
    BY <2>1 DEF ExitOK
  <2> QED
    BY <1>3, <1>4, <1>5, <2>1, <2>2
<1> QED
  BY <1>3, <1>6, <1>7, Leaves
\* A request for a replay
LEMMA AskedIs ==
    ASSUME NEW w \in View, w.number \in 1..MaxViews, replays \in [1..MaxViews -> Replay],
           AsksReplay(w)
    PROVE  /\ view' \in View /\ replays' \in [1..MaxViews -> Replay]
           /\ view'.number = w.number /\ view'.needs = w.needs /\ view'.cut = w.cut
           /\ view'.buffer = w.buffer /\ view'.out = w.out /\ view'.skipped = w.skipped
           /\ view'.exiting = w.exiting /\ view'.restored = w.restored
           /\ w.request # "none" => view'.request = w.request /\ replays' = replays
           /\ w.request = "none" /\ Connected =>
                 view'.request = "pending" /\ replays'[w.number].at = "asked"
           /\ w.request = "none" /\ ~Connected =>
                 view'.request \in {"waits", "failed"} /\ replays' = replays
           /\ \A v \in 1..MaxViews : v # w.number => replays'[v] = replays[v]
<1>1. CASE w.request # "none"
  BY <1>1 DEF AsksReplay, Asked
<1>2. CASE w.request = "none"
  <2> DEFINE to == IF Connected THEN "pending" ELSE IF channel.reconnecting THEN "waits" ELSE "failed"
  <2>1. view' = [w EXCEPT !.request = to]
    BY <1>2 DEF AsksReplay, Asked
  <2>2. to \in {"waits", "pending", "failed"} /\ (Connected => to = "pending")
        /\ (~Connected => to \in {"waits", "failed"})
    OBVIOUS
  <2>3. replays' = IF Connected THEN [replays EXCEPT ![w.number].at = "asked"] ELSE replays
    BY <1>2 DEF AsksReplay
  <2> HIDE DEF to
  <2>4. /\ view' \in View /\ view'.request = to
        /\ view'.number = w.number /\ view'.needs = w.needs /\ view'.cut = w.cut
        /\ view'.buffer = w.buffer /\ view'.out = w.out /\ view'.skipped = w.skipped
        /\ view'.exiting = w.exiting /\ view'.restored = w.restored
    BY <2>1, <2>2 DEF View
  <2>5. replays' \in [1..MaxViews -> Replay] /\ (Connected => replays'[w.number].at = "asked")
    <3>1. replays[w.number] \in Replay
      OBVIOUS
    <3>2. [replays[w.number] EXCEPT !.at = "asked"] \in Replay
      BY <3>1 DEF Replay
    <3>3. CASE Connected
      <4>1. replays' = [replays EXCEPT ![w.number] = [replays[w.number] EXCEPT !.at = "asked"]]
        BY <2>3, <3>3
      <4>2. replays'[w.number] = [replays[w.number] EXCEPT !.at = "asked"]
        BY <4>1
      <4> QED
        BY <3>1, <3>2, <4>1, <4>2 DEF Replay
    <3>4. CASE ~Connected
      BY <2>3, <3>4
    <3> QED
      BY <3>3, <3>4
  <2>6. \A v \in 1..MaxViews : v # w.number => replays'[v] = replays[v]
    BY <2>3
  <2> QED
    BY <1>2, <2>2, <2>3, <2>4, <2>5, <2>6
<1> QED
  BY <1>1, <1>2

\* It is on its way
LEMMA AskedFor ==
    ASSUME NEW v, NEW s, NEW own, NEW r, NEW told, NEW sent, NEW shows, NEW buffer,
           \A i \in 1..Len(s) : s[i].for # v
    PROVE  MailOK(s, "asked", own, v, 0, r) /\ HeardOK(s, "asked", v, 0, told, sent, shows, buffer)
BY DEF MailOK, HeardOK, Carries

\* What holds of a view that has just asked
LEMMA AskedOK ==
    ASSUME NEW r, StreamAt(r), NEW w \in View, w.number \in 1..MaxViews, AsksReplay(w),
           UNCHANGED <<terminal, socket>>,
           w.request = "none", NoReplayFor(w.number, replays, socket), w.needs, w.out = <<>>,
           Connected' <=> Connected, ~Connected => channel'.at # "up",
           \A i \in 1..Len(w.buffer) : w.buffer[i].last <= r[0]
    PROVE  (LiveOK(r) /\ NeedyOK(r) /\ PendingOK(r) /\ ResolvedOK(r))'
<1>1. /\ view'.number = w.number /\ view'.needs = w.needs
      /\ view'.buffer = w.buffer /\ view'.out = w.out
      /\ Connected => view'.request = "pending" /\ replays'[w.number].at = "asked"
      /\ ~Connected => view'.request \in {"waits", "failed"} /\ replays' = replays
  BY StreamFacts, AskedIs
<1>2. LiveOK(r)' /\ ResolvedOK(r)'
  BY <1>1 DEF LiveOK, ResolvedOK
<1>3. NeedyOK(r)'
  BY <1>1 DEF NeedyOK
<1>4. PendingOK(r)'
  <2>1. SUFFICES ASSUME view'.request = "pending"
                 PROVE  Connected' /\ \E cut \in Outputs : ReplayOK(view.number, cut, r)'
    BY DEF PendingOK
  <2>2. Connected /\ Connected' /\ replays'[w.number].at = "asked"
    BY <1>1, <2>1
  <2>3. ReplayOK(view.number, 0, r)'
    BY <1>1, <2>2, AskedFor DEF ReplayOK, NoReplayFor
  <2> QED
    BY <2>2, <2>3, StreamTypes
<1> QED
  BY <1>2, <1>3, <1>4

LEMMA AttachesStep == StreamInv /\ Attaches => StreamInv'
<1> SUFFICES ASSUME NEW r, StreamAt(r), Attaches PROVE StreamAt(r)'
  BY DEF StreamInv
<1> DEFINE v == counts.views + 1
           w == NewView(v)
<1>0. /\ ~Viewed /\ recorded /\ counts.views < MaxViews /\ AsksReplay(w)
      /\ counts' = [counts EXCEPT !.views = v]
      /\ UNCHANGED <<terminal, socket, channel, recorded, screen>>
  BY StreamFacts DEF Attaches, StreamTypeOK
<1>1. /\ counts \in [views: 0..MaxViews, cuts: 0..MaxCuts, pressures: 0..MaxPressures,
                     timeouts: 0..MaxTimeouts]
      /\ v \in 1..MaxViews
  BY <1>0, StreamFacts, StreamTypes DEF StreamTypeOK
<1>2. counts' \in [views: 0..MaxViews, cuts: 0..MaxCuts, pressures: 0..MaxPressures,
                   timeouts: 0..MaxTimeouts] /\ counts'.views = v /\ counts.views <= v
      /\ v \in Nat /\ counts.views \in Nat /\ counts.views < v
  BY <1>0, <1>1, StreamTypes
<1> HIDE DEF v
<1>3. /\ w \in View /\ w.number = v /\ w.request = "none" /\ w.needs /\ w.out = <<>> /\ w.buffer = <<>>
      /\ w.exiting = "no" /\ ~w.restored
  <2>1. w \in View
    BY <1>1, StreamTypes DEF NewView, View, Outputs
  <2> QED
    BY <2>1 DEF NewView
<1> HIDE DEF w
<1>4. /\ view' \in View /\ replays' \in [1..MaxViews -> Replay]
      /\ view'.number = v /\ view'.exiting = "no" /\ ~view'.restored
      /\ \A u \in 1..MaxViews : u # v => replays'[u] = replays[u]
  BY <1>0, <1>1, <1>3, StreamFacts, AskedIs
<1>5. StreamTypeOK'
  BY <1>0, <1>2, <1>4, StreamFacts DEF StreamTypeOK
<1>6. SocketOK(r)'
  BY <1>0, <1>2, StreamFacts, SocketStays
<1>7. NumbersOK'
  <2>1. ASSUME NEW u \in 1..MaxViews, replays'[u].at # "none" PROVE u <= v
    <3>1. u = v \/ u <= counts.views
      BY <1>4, <2>1, StreamFacts DEF NumbersOK
    <3> QED
      BY <1>2, <3>1
  <2> QED
    BY <1>2, <1>4, <2>1 DEF NumbersOK
<1>8. EndOK'
  <2>1. ~screen.closed
    BY <1>0, StreamFacts DEF EndOK
  <2>2. Viewed'
    BY <1>2, <1>4 DEF Viewed
  <2> QED
    BY <1>0, <1>4, <2>1, <2>2 DEF EndOK
<1>9. NoReplayFor(v, replays, socket)
  <2>1. replays[v].at = "none"
    BY <1>1, <1>2, StreamFacts DEF NumbersOK
  <2>2. ASSUME NEW i \in 1..Len(socket) PROVE socket[i].for # v
    <3>1. MessageOK(socket[i], i, r[i], terminal, channel.at, counts.views)
      BY StreamFacts DEF SocketOK
    <3>2. socket[i].for <= counts.views
      BY <3>1 DEF MessageOK
    <3> QED
      BY <1>2, <3>2
  <2> QED
    BY <2>1, <2>2 DEF NoReplayFor
<1>10. (LiveOK(r) /\ NeedyOK(r) /\ PendingOK(r) /\ ResolvedOK(r))'
  <2>1. \A i \in 1..Len(w.buffer) : w.buffer[i].last <= r[0]
    <3>1. Len(w.buffer) = 0
      BY <1>3
    <3> QED
      BY <3>1
  <2>2. (Connected' <=> Connected) /\ (~Connected => channel'.at # "up")
    BY <1>0 DEF Connected
  <2> QED
    BY <1>0, <1>1, <1>3, <1>9, <2>1, <2>2, AskedOK
<1>11. ViewOK(r)'
  BY <1>4, <1>10 DEF ViewOK, SkippedOK, ExitOK
<1>12. (terminal.sent <= terminal.printed)' /\ Flow(socket', terminal'.sent, r)
  BY <1>0, StreamFacts
<1> QED
  BY <1>5, <1>6, <1>7, <1>8, <1>11, <1>12 DEF StreamAt
\* Batches are drawn, and are gone
LEMMA DrawsOut ==
    ASSUME NEW r, StreamAt(r), FlushesStream, screen' = DrawnAll(screen, view.out),
           view' = [view EXCEPT !.out = <<>>], UNCHANGED <<replays, counts>>
    PROVE  StreamAt(r)'
<1>0. /\ Viewed /\ view.out # <<>> /\ UNCHANGED <<terminal, socket, channel, recorded>>
  BY DEF FlushesStream
<1>1. /\ view' \in View /\ view'.request = view.request /\ view'.number = view.number
      /\ view'.needs = view.needs /\ view'.buffer = view.buffer /\ view'.out = <<>>
      /\ view'.skipped = view.skipped /\ view'.exiting = view.exiting
      /\ view'.restored = view.restored /\ view'.cut = view.cut
  <2> DEFINE q == <<>>
  <2>1. q \in Seq(Chunk) /\ view \in View /\ view' = [view EXCEPT !.out = q]
    BY StreamFacts
  <2> HIDE DEF q
  <2>2. view' \in View /\ view'.out = q
    BY ONLY <2>1 DEF View
  <2>3. /\ view'.request = view.request /\ view'.number = view.number
        /\ view'.needs = view.needs /\ view'.buffer = view.buffer
        /\ view'.skipped = view.skipped /\ view'.exiting = view.exiting
        /\ view'.restored = view.restored /\ view'.cut = view.cut
    BY ONLY <2>1 DEF View
  <2> QED
    BY <2>2, <2>3 DEF q
<1>2. screen' \in Screen /\ screen'.replaying = screen.replaying /\ screen'.closed = screen.closed
  BY StreamFacts, DrawnAllIs
<1>3. StreamTypeOK'
  BY <1>0, <1>1, <1>2, StreamFacts DEF StreamTypeOK, Screen
<1>4. SocketOK(r)'
  BY <1>0, StreamFacts, SocketStays
<1>5. NumbersOK'
  BY <1>1, StreamFacts DEF NumbersOK
<1>6. EndOK'
  <2>1. ~screen.closed /\ (~recorded => view.exiting # "no") /\ (view.exiting = "exit" => ~recorded)
    BY <1>0, StreamFacts DEF EndOK
  <2>2. Viewed'
    BY <1>0, <1>1 DEF Viewed
  <2> QED
    BY <1>0, <1>1, <1>2, <2>1, <2>2 DEF EndOK
<1>7. ASSUME Shows' PROVE (LiveOK(r) /\ NeedyOK(r) /\ PendingOK(r) /\ ResolvedOK(r) /\ SkippedOK(r) /\ ExitOK(r))'
  <2>1. LiveOK(r) /\ NeedyOK(r) /\ ExitOK(r)
    BY <1>1, <1>7, StreamFacts DEF Shows, Viewed, ViewOK
  <2>2. ~view.needs
    BY <1>0, <2>1 DEF NeedyOK
  <2>3. /\ view.request = "none" /\ view.buffer = <<>> /\ view.skipped = <<>>
        /\ ~screen.replaying /\ NoReplayFor(view.number, replays, socket)
        /\ Settled => screen.exact /\ Chain(screen.shown, view.out, r[0])
    BY <2>1, <2>2 DEF LiveOK
  <2>4. ASSUME Settled PROVE screen'.exact /\ Chain(screen'.shown, <<>>, r[0])
    <3>1. screen'.exact /\ screen'.shown = r[0]
      BY <2>3, <2>4, StreamFacts, DrawnChain
    <3> DEFINE q == <<>>
    <3>2. q = <<>> /\ Len(q) = 0 /\ \A i \in 1..0 - 1 : FALSE
      OBVIOUS
    <3> HIDE DEF q
    <3>3. Chain(screen'.shown, q, r[0])
      BY <3>1, <3>2 DEF Chain
    <3> QED
      BY <3>1, <3>3 DEF q
  <2>5. Settled' <=> Settled
    BY <1>0, <1>1 DEF Settled
  <2>6. NoReplayFor(view.number, replays, socket)'
    BY <1>0, <1>1, <2>3
  <2>7. LiveOK(r)'
    BY <1>1, <1>2, <2>3, <2>4, <2>5, <2>6 DEF LiveOK
  <2>8. NeedyOK(r)' /\ PendingOK(r)' /\ ResolvedOK(r)' /\ SkippedOK(r)'
    <3>1. Len(view'.buffer) = 0 /\ ~view'.needs /\ view'.request = "none"
      BY <1>1, <2>2, <2>3
    <3> QED
      BY <3>1 DEF NeedyOK, PendingOK, ResolvedOK, SkippedOK
  <2>9. ExitOK(r)'
    BY <1>0, <1>1, <2>1 DEF ExitOK
  <2> QED
    BY <2>7, <2>8, <2>9
<1>8. (terminal.sent <= terminal.printed)' /\ Flow(socket', terminal'.sent, r)
  BY <1>0, StreamFacts
<1> QED
  BY <1>3, <1>4, <1>5, <1>6, <1>7, <1>8 DEF StreamAt, ViewOK

\* Batches meet pressure
LEMMA SkipsOut ==
    ASSUME NEW r, StreamAt(r), FlushesStream, view.exiting = "no", counts.pressures < MaxPressures,
           counts' = [counts EXCEPT !.pressures = @ + 1],
           AsksReplay([view EXCEPT !.out = <<>>, !.skipped = view.out, !.needs = TRUE]),
           UNCHANGED screen
    PROVE  StreamAt(r)'
<1> DEFINE w == [view EXCEPT !.out = <<>>, !.skipped = view.out, !.needs = TRUE]
<1>0. /\ Viewed /\ view.out # <<>> /\ UNCHANGED <<terminal, socket, channel, recorded>>
  BY DEF FlushesStream
<1>1. LiveOK(r) /\ NeedyOK(r)
  BY <1>0, StreamFacts DEF ViewOK, Shows
<1>2. /\ ~view.needs /\ view.request = "none" /\ view.buffer = <<>> /\ view.skipped = <<>>
      /\ ~screen.replaying /\ NoReplayFor(view.number, replays, socket)
      /\ Settled => screen.exact /\ Chain(screen.shown, view.out, r[0])
  BY <1>0, <1>1 DEF LiveOK, NeedyOK
<1>3. /\ w \in View /\ w.number = view.number /\ w.request = "none" /\ w.needs /\ w.out = <<>>
      /\ w.buffer = <<>> /\ w.exiting = "no" /\ w.skipped = view.out
  BY <1>2, StreamFacts DEF View
<1>4. w.number \in 1..MaxViews
  BY <1>0, <1>3, StreamFacts, StreamTypes DEF Viewed
<1>5. AsksReplay(w)
  OBVIOUS
<1> HIDE DEF w
<1>6. /\ view' \in View /\ replays' \in [1..MaxViews -> Replay]
      /\ view'.number = view.number /\ view'.exiting = "no" /\ view'.skipped = view.out
      /\ view'.buffer = <<>>
      /\ \A u \in 1..MaxViews : u # view.number => replays'[u] = replays[u]
  BY <1>3, <1>4, <1>5, StreamFacts, AskedIs
<1>7. counts' \in [views: 0..MaxViews, cuts: 0..MaxCuts, pressures: 0..MaxPressures,
                   timeouts: 0..MaxTimeouts] /\ counts'.views = counts.views
  <2>1. counts \in [views: 0..MaxViews, cuts: 0..MaxCuts, pressures: 0..MaxPressures,
                   timeouts: 0..MaxTimeouts]
    BY StreamFacts DEF StreamTypeOK
  <2>2. counts.pressures + 1 \in 0..MaxPressures
    BY <2>1, StreamTypes
  <2> QED
    BY <2>1, <2>2
<1>8. StreamTypeOK'
  BY <1>0, <1>6, <1>7, StreamFacts DEF StreamTypeOK
<1>9. SocketOK(r)'
  BY <1>0, <1>7, StreamFacts, SocketStays
<1>10. NumbersOK'
  BY <1>6, <1>7, StreamFacts DEF NumbersOK
<1>11. EndOK'
  <2>1. ~screen.closed /\ recorded
    BY <1>0, StreamFacts DEF EndOK
  <2>2. Viewed'
    BY <1>0, <1>6 DEF Viewed
  <2> QED
    BY <1>0, <1>6, <2>1, <2>2 DEF EndOK
<1>12. (LiveOK(r) /\ NeedyOK(r) /\ PendingOK(r) /\ ResolvedOK(r))'
  <2>1. \A i \in 1..Len(w.buffer) : w.buffer[i].last <= r[0]
    <3>1. Len(w.buffer) = 0
      BY <1>3
    <3> QED
      BY <3>1
  <2>2. (Connected' <=> Connected) /\ (~Connected => channel'.at # "up")
    BY <1>0 DEF Connected
  <2> QED
    BY <1>0, <1>2, <1>3, <1>4, <1>5, <2>1, <2>2, AskedOK
<1>13. SkippedOK(r)'
  <2>1. Settled' => Settled
    BY <1>0, <1>6 DEF Settled
  <2>2. Settled => view.out[Len(view.out)].last = r[0]
    BY <1>0, <1>2 DEF Chain
  <2> QED
    BY <1>0, <1>6, <2>1, <2>2 DEF SkippedOK
<1>14. ExitOK(r)'
  BY <1>6 DEF ExitOK
<1>15. (terminal.sent <= terminal.printed)' /\ Flow(socket', terminal'.sent, r)
  BY <1>0, StreamFacts
<1> QED
  BY <1>8, <1>9, <1>10, <1>11, <1>12, <1>13, <1>14, <1>15 DEF StreamAt, ViewOK

LEMMA FlushesStreamStep == StreamInv /\ FlushesStream => StreamInv'
<1> SUFFICES ASSUME NEW r, StreamAt(r), FlushesStream PROVE StreamAt(r)'
  BY DEF StreamInv
<1> QED
  BY DrawsOut, SkipsOut DEF FlushesStream
\* The replay is there: what it does not have follows
LEMMA Resolves ==
    ASSUME NEW r, StreamAt(r), Viewed, view.request = "resolved",
           view' = [view EXCEPT !.request = "none", !.needs = FALSE, !.restored = TRUE,
                                !.out = @ \o BeyondCut(view.buffer, view.cut),
                                !.buffer = <<>>, !.skipped = <<>>],
           UNCHANGED <<terminal, replays, socket, channel, recorded, screen, counts>>
    PROVE  StreamAt(r)'
<1> DEFINE more == BeyondCut(view.buffer, view.cut)
           q == <<>>
<1>1. Shows => LiveOK(r) /\ NeedyOK(r) /\ ResolvedOK(r) /\ ExitOK(r)
  BY StreamFacts DEF ViewOK
<1>2. Shows => /\ view.needs /\ view.out = <<>> /\ AtCut(screen, view.cut) /\ view.cut <= r[0]
               /\ Beyond(view.cut, view.buffer, r[0]) /\ NoReplayFor(view.number, replays, socket)
               /\ Connected
  BY <1>1 DEF LiveOK, NeedyOK, ResolvedOK
<1>3. view.buffer \in Seq(Chunk) /\ view.out \in Seq(Chunk) /\ view.cut \in Outputs /\ r[0] \in Nat
      /\ q \in Seq(Chunk) /\ view \in View /\ Len(q) = 0
  BY StreamFacts
<1>4. Shows => more \in Seq(Chunk) /\ Chain(view.cut, more, r[0])
  BY <1>2, <1>3, BeyondCutIs
<1>5. more \in Seq(Chunk)
  <2>1. /\ \A i \in 0..Len(view.buffer) : BeyondSteps(view.buffer, view.cut)[i] \in Seq(Chunk)
        /\ Len(view.buffer) \in 0..Len(view.buffer)
    BY <1>3, BeyondStepsAre
  <2> QED
    BY <2>1 DEF BeyondCut
<1> DEFINE out2 == view.out \o more
<1>6. out2 \in Seq(Chunk) /\ (Shows => out2 = more)
  <2> HIDE DEF more
  <2>1. out2 \in Seq(Chunk)
    BY <1>3, <1>5
  <2>2. view.out = <<>> => out2 = more
    BY <1>3, <1>5
  <2> QED
    BY <1>2, <2>1, <2>2
<1>7. view' = [view EXCEPT !.request = "none", !.needs = FALSE, !.restored = TRUE,
                           !.out = out2, !.buffer = q, !.skipped = q]
  BY <1>3
<1> HIDE DEF more, q, out2
<1>8. view' \in View
  BY ONLY <1>3, <1>6, <1>7 DEF View
<1>9. /\ view'.request = "none" /\ view'.number = view.number
      /\ view'.needs = FALSE /\ view'.buffer = q /\ view'.out = out2
      /\ view'.skipped = q /\ view'.exiting = view.exiting
  BY ONLY <1>3, <1>7 DEF View
<1>10. StreamTypeOK'
  BY <1>8, StreamFacts DEF StreamTypeOK
<1>11. SocketOK(r)'
  BY StreamFacts, SocketStays
<1>12. NumbersOK'
  BY <1>9, StreamFacts DEF NumbersOK
<1>13. (Viewed' <=> Viewed) /\ (Shows' <=> Shows) /\ (Settled' <=> Settled)
  BY <1>9 DEF Viewed, Shows, Settled
<1>14. EndOK'
  BY <1>9, <1>13, StreamFacts DEF EndOK
<1>15. ASSUME Shows PROVE (LiveOK(r) /\ NeedyOK(r) /\ PendingOK(r) /\ ResolvedOK(r) /\ SkippedOK(r) /\ ExitOK(r))'
  <2>1. ~screen.replaying /\ screen.exact /\ Chain(screen.shown, out2, r[0])
    BY <1>2, <1>4, <1>6, <1>15 DEF AtCut
  <2>2. NoReplayFor(view.number, replays, socket)'
    BY <1>2, <1>9, <1>15
  <2>3. LiveOK(r)'
    BY <1>9, <2>1, <2>2 DEF LiveOK, q
  <2>4. NeedyOK(r)' /\ PendingOK(r)' /\ ResolvedOK(r)' /\ SkippedOK(r)'
    BY <1>3, <1>9 DEF NeedyOK, PendingOK, ResolvedOK, SkippedOK
  <2>5. ExitOK(r)'
    BY <1>1, <1>9, <1>15 DEF ExitOK
  <2> QED
    BY <2>3, <2>4, <2>5
<1>16. (terminal.sent <= terminal.printed)' /\ Flow(socket', terminal'.sent, r)
  BY StreamFacts
<1> QED
  BY <1>10, <1>11, <1>12, <1>13, <1>14, <1>15, <1>16 DEF StreamAt, ViewOK

\* The request is over without a replay, and the view stays
LEMMA Ends ==
    ASSUME NEW r, StreamAt(r), Viewed, view.request \in {"absent", "failed"}, view' \in View,
           view'.request = "none", view'.number = view.number, view'.needs = view.needs,
           view'.buffer = view.buffer, view'.out = view.out, view'.skipped = view.skipped,
           view'.restored = view.restored, view'.exiting # "no",
           view'.exiting = view.exiting \/ view'.exiting = "gone",
           UNCHANGED <<terminal, replays, socket, channel, recorded, screen, counts>>
    PROVE  StreamAt(r)'
<1>1. StreamTypeOK'
  BY StreamFacts DEF StreamTypeOK
<1>2. SocketOK(r)'
  BY StreamFacts, SocketStays
<1>3. NumbersOK'
  BY StreamFacts DEF NumbersOK
<1>4. EndOK'
  BY StreamFacts DEF EndOK, Viewed
<1>5. ASSUME Shows' PROVE (LiveOK(r) /\ NeedyOK(r) /\ PendingOK(r) /\ ResolvedOK(r) /\ SkippedOK(r) /\ ExitOK(r))'
  <2>1. Shows /\ view'.exiting = view.exiting
    BY <1>5 DEF Shows
  <2>2. LiveOK(r) /\ NeedyOK(r) /\ SkippedOK(r) /\ ExitOK(r)
    BY <2>1, StreamFacts DEF ViewOK
  <2>3. view.needs /\ view'.needs
    BY <2>2 DEF LiveOK
  <2>4. LiveOK(r)' /\ PendingOK(r)' /\ ResolvedOK(r)'
    BY <2>3 DEF LiveOK, PendingOK, ResolvedOK
  <2>5. NeedyOK(r)'
    BY <2>2 DEF NeedyOK
  <2>6. SkippedOK(r)'
    BY <2>1, <2>2 DEF SkippedOK, Settled
  <2>7. ExitOK(r)'
    BY <2>1, <2>2 DEF ExitOK
  <2> QED
    BY <2>4, <2>5, <2>6, <2>7
<1>6. (terminal.sent <= terminal.printed)' /\ Flow(socket', terminal'.sent, r)
  BY StreamFacts
<1> QED
  BY <1>1, <1>2, <1>3, <1>4, <1>5, <1>6 DEF StreamAt, ViewOK

LEMMA SnapshotReturnsStep == StreamInv /\ SnapshotReturns => StreamInv'
<1> SUFFICES ASSUME NEW r, StreamAt(r), SnapshotReturns PROVE StreamAt(r)'
  BY DEF StreamInv
<1>0. Viewed /\ UNCHANGED <<terminal, replays, socket, channel, recorded, screen, counts>>
      /\ view \in View
  BY StreamFacts DEF SnapshotReturns
<1>1. CASE view.request = "resolved"
  BY <1>0, <1>1, Resolves DEF SnapshotReturns
<1>2. CASE view.request = "absent"
  <2> DEFINE how == IF view.exiting = "no" THEN "gone" ELSE view.exiting
  <2>1. view' = [view EXCEPT !.request = "none", !.exiting = how]
    BY <1>2, <1>0 DEF SnapshotReturns, View
  <2>2. how \in {"exit", "gone"} /\ (how = view.exiting \/ how = "gone")
    BY <1>0 DEF View
  <2> HIDE DEF how
  <2>3. /\ view' \in View /\ view'.request = "none" /\ view'.number = view.number /\ view'.needs = view.needs
        /\ view'.buffer = view.buffer /\ view'.out = view.out /\ view'.skipped = view.skipped
        /\ view'.restored = view.restored /\ view'.exiting = how
    BY <1>0, <2>1, <2>2 DEF View
  <2> QED
    BY <1>0, <1>2, <2>2, <2>3, Ends
<1>3. CASE view.request = "failed" /\ view.exiting = "no"
  <2>1. view' = NoView
    BY <1>3 DEF SnapshotReturns, Releases
  <2>2. StreamTypeOK'
    BY <1>0, <2>1, StreamFacts, NoViewIs DEF StreamTypeOK
  <2> QED
    BY <1>0, <2>1, <2>2, StreamFacts, Leaves DEF EndOK
<1>4. CASE view.request = "failed" /\ view.exiting # "no"
  <2>1. view' = [view EXCEPT !.request = "none"]
    BY <1>4 DEF SnapshotReturns
  <2>2. /\ view' \in View /\ view'.request = "none" /\ view'.number = view.number /\ view'.needs = view.needs
        /\ view'.buffer = view.buffer /\ view'.out = view.out /\ view'.skipped = view.skipped
        /\ view'.restored = view.restored /\ view'.exiting = view.exiting
    BY <1>0, <2>1 DEF View
  <2> QED
    BY <1>0, <1>4, <2>2, Ends
<1> QED
  BY <1>1, <1>2, <1>3, <1>4 DEF SnapshotReturns
-----------------------------------------------------------------------------
(* The connection *)

\* A view that sees an exit is not there while the connection is lost or taken up again
LEMMA ExitKnown ==
    ASSUME NEW r, StreamAt(r), Shows, view.exiting = "exit", channel.at # "up"
    PROVE  channel.at = "down" /\ Settling
<1>1. ExitOK(r)
  BY StreamFacts DEF ViewOK
<1> QED
  BY <1>1 DEF ExitOK, Settling, SnapshotInFlight

LEMMA AdoptsStep == StreamInv /\ Adopts => StreamInv'
<1> SUFFICES ASSUME NEW r, StreamAt(r), Adopts PROVE StreamAt(r)'
  BY DEF StreamInv
<1>0. /\ channel.at = "listed" /\ channel' = [at |-> "up", reconnecting |-> FALSE]
      /\ UNCHANGED <<terminal, socket, recorded, counts>>
      /\ channel'.at = "up" /\ Connected /\ Connected'
  BY DEF Adopts, Connected
<1>1. Shows => recorded /\ view.exiting = "no"
  <2>1. Shows => view.exiting # "exit"
    BY <1>0, ExitKnown DEF ExitOK, ViewOK, StreamAt
  <2>2. view \in View /\ view.exiting \in {"no", "exit", "gone"}
    <3>1. view \in View
      BY StreamFacts
    <3> QED
      BY <3>1 DEF View
  <2> QED
    BY <2>1, <2>2, StreamFacts DEF Shows, EndOK
<1>2. SocketOK(r)'
  <2>1. ASSUME NEW i \in 1..Len(socket)
        PROVE  MessageOK(socket[i], i, r[i], terminal, "up", counts.views)
    <3>1. MessageOK(socket[i], i, r[i], terminal, channel.at, counts.views)
      BY StreamFacts DEF SocketOK
    <3> QED
      BY <1>0, <3>1 DEF MessageOK
  <2> QED
    BY <1>0, <2>1 DEF SocketOK
<1>3. (terminal.sent <= terminal.printed)' /\ Flow(socket', terminal'.sent, r)
  BY <1>0, StreamFacts
<1>4. channel' \in [at: {"up", "down", "listing", "listed", "lost"}, reconnecting: BOOLEAN]
  BY <1>0
\* Neither the view nor its replay is disturbed
<1>5. ASSUME view' \in View, replays' \in [1..MaxViews -> Replay], screen' \in Screen,
             view'.number = view.number, view'.exiting = view.exiting,
             \A u \in 1..MaxViews : u # view.number => replays'[u] = replays[u],
             Viewed \/ view'.request = "none",
             screen'.closed = screen.closed, screen.closed => screen' = screen,
             Shows => (LiveOK(r) /\ NeedyOK(r) /\ PendingOK(r) /\ ResolvedOK(r) /\ SkippedOK(r))'
      PROVE  StreamAt(r)'
  <2>1. StreamTypeOK'
    BY <1>0, <1>4, <1>5, StreamFacts DEF StreamTypeOK, Screen
  <2>2. NumbersOK'
    BY <1>0, <1>5, StreamFacts DEF NumbersOK
  <2>3. EndOK'
    BY <1>0, <1>5, StreamFacts DEF EndOK, Viewed
  <2>4. ViewOK(r)'
    <3> SUFFICES ASSUME Shows' PROVE (LiveOK(r) /\ NeedyOK(r) /\ PendingOK(r) /\ ResolvedOK(r) /\ SkippedOK(r) /\ ExitOK(r))'
      BY DEF ViewOK
    <3>1. Shows
      BY <1>5 DEF Shows, Viewed
    <3>2. ExitOK(r)'
      BY <1>1, <1>5, <3>1 DEF ExitOK
    <3> QED
      BY <1>5, <3>1, <3>2
  <2> QED
    BY <1>2, <1>3, <2>1, <2>2, <2>3, <2>4 DEF StreamAt
<1>6. CASE Viewed /\ recorded
  <2> DEFINE to == IF view.request = "waits" THEN "none" ELSE view.request
             q == <<>>
             w == [view EXCEPT !.out = q, !.needs = TRUE, !.restored = FALSE, !.request = to]
  <2>1. /\ screen' = DrawnAll(screen, view.out) /\ AsksReplay(w)
    BY <1>6, StreamFacts DEF Adopts
  <2>2. view \in View /\ q \in Seq(Chunk) /\ to \in {"none", "waits", "pending", "resolved", "absent", "failed"}
        /\ to # "waits" /\ (view.request \notin {"none", "waits"} => to = view.request)
        /\ (to = "none" <=> view.request \in {"none", "waits"})
    <3>1. view \in View /\ q \in Seq(Chunk)
      BY StreamFacts
    <3> QED
      BY <3>1 DEF View
  <2> HIDE DEF to, q
  <2>3. /\ w \in View /\ w.number = view.number /\ w.request = to /\ w.needs /\ w.out = q
        /\ w.buffer = view.buffer /\ w.exiting = view.exiting /\ ~w.restored /\ w.cut = view.cut
    BY <2>2 DEF View
  <2>4. w.number \in 1..MaxViews
    BY <1>6, <2>3, StreamFacts, StreamTypes DEF Viewed
  <2> HIDE DEF w
  <2>5. /\ view' \in View /\ replays' \in [1..MaxViews -> Replay]
        /\ view'.number = view.number /\ view'.exiting = view.exiting /\ view'.needs
        /\ view'.buffer = view.buffer /\ ~view'.restored /\ view'.out = q /\ view'.cut = view.cut
        /\ to # "none" => view'.request = to /\ replays' = replays
        /\ to = "none" => view'.request = "pending"
        /\ \A u \in 1..MaxViews : u # view.number => replays'[u] = replays[u]
    BY <1>0, <2>1, <2>2, <2>3, <2>4, StreamFacts, AskedIs
  <2>6. /\ screen' \in Screen /\ screen'.replaying = screen.replaying /\ screen'.closed = screen.closed
        /\ view.out = <<>> => screen' = screen
    BY <2>1, StreamFacts, DrawnAllIs
  <2>7. ~screen.closed
    BY <1>6, StreamFacts DEF EndOK
  <2>8. ASSUME Shows PROVE (LiveOK(r) /\ NeedyOK(r) /\ PendingOK(r) /\ ResolvedOK(r) /\ SkippedOK(r))'
    <3>1. LiveOK(r) /\ NeedyOK(r) /\ PendingOK(r) /\ ResolvedOK(r)
      BY <2>8, StreamFacts DEF ViewOK
    <3>2. SkippedOK(r)'
      BY <2>5 DEF SkippedOK
    <3>3. CASE to = "none"
      <4>1. NoReplayFor(view.number, replays, socket)
        BY <1>1, <2>2, <2>8, <3>1, <3>3 DEF LiveOK, NeedyOK
      <4>2. \A i \in 1..Len(w.buffer) : w.buffer[i].last <= r[0]
        BY <2>3, <3>1 DEF NeedyOK
      <4>3. (LiveOK(r) /\ NeedyOK(r) /\ PendingOK(r) /\ ResolvedOK(r))'
        BY <1>0, <2>1, <2>3, <2>4, <3>3, <4>1, <4>2, AskedOK DEF q
      <4> QED
        BY <3>2, <4>3
    <3>4. CASE to # "none"
      <4>1. view.request = to /\ view'.request = view.request /\ replays' = replays /\ view.request # "none"
        BY <2>2, <2>5, <3>4
      <4>2. view.needs /\ view.out = <<>>
        BY <3>1, <4>1 DEF LiveOK, NeedyOK
      <4>3. screen' = screen
        BY <2>6, <4>2
      <4>4. LiveOK(r)'
        BY <2>5 DEF LiveOK
      <4>5. NeedyOK(r)'
        BY <2>2, <2>5, <3>1, <4>1 DEF NeedyOK, q
      <4>6. PendingOK(r)'
        BY <1>0, <2>5, <3>1, <4>1, <4>3 DEF PendingOK, ReplayOK
      <4>7. ResolvedOK(r)'
        BY <1>0, <2>5, <3>1, <4>1, <4>3 DEF ResolvedOK
      <4> QED
        BY <3>2, <4>4, <4>5, <4>6, <4>7
    <3> QED
      BY <3>3, <3>4
  <2> QED
    BY <1>5, <1>6, <2>5, <2>6, <2>7, <2>8
<1>7. CASE ~(Viewed /\ recorded)
  <2>1. ~Shows /\ screen' = screen
    BY <1>1, <1>7 DEF Adopts, Shows
  <2>2. CASE view.request = "waits"
    <3> DEFINE w == [view EXCEPT !.request = "none"]
    <3>1. AsksReplay(w)
      BY <1>7, <2>2 DEF Adopts
    <3>2. w \in View /\ w.number = view.number /\ w.exiting = view.exiting
      BY StreamFacts DEF View
    <3>3. Viewed
      BY <2>2, StreamFacts DEF EndOK
    <3>4. w.number \in 1..MaxViews
      BY <3>2, <3>3, StreamFacts, StreamTypes DEF Viewed
    <3> HIDE DEF w
    <3>5. /\ view' \in View /\ replays' \in [1..MaxViews -> Replay]
          /\ view'.number = view.number /\ view'.exiting = view.exiting
          /\ \A u \in 1..MaxViews : u # view.number => replays'[u] = replays[u]
      BY <3>1, <3>2, <3>4, StreamFacts, AskedIs
    <3> QED
      BY <1>5, <2>1, <3>3, <3>5, StreamFacts
  <2>3. CASE view.request # "waits"
    <3>1. view' = view /\ replays' = replays
      BY <1>7, <2>3 DEF Adopts
    <3>2. Viewed \/ view'.request = "none"
      BY <3>1, StreamFacts DEF EndOK
    <3> QED
      BY <1>5, <2>1, <3>1, <3>2, StreamFacts
  <2> QED
    BY <2>2, <2>3
<1> QED
  BY <1>6, <1>7
LEMMA GivesUpStep == StreamInv /\ GivesUp => StreamInv'
<1> SUFFICES ASSUME NEW r, StreamAt(r), GivesUp PROVE StreamAt(r)'
  BY DEF StreamInv
<1> DEFINE waiting == [view EXCEPT !.request = IF @ = "waits" THEN "failed" ELSE @]
<1>0. /\ ~Settling /\ channel.at = "down" /\ channel' = [at |-> "lost", reconnecting |-> FALSE]
      /\ recorded' = FALSE /\ terminal' = [terminal EXCEPT !.alive = FALSE]
      /\ UNCHANGED <<replays, socket, screen, counts>>
      /\ view' = IF Viewed /\ recorded /\ view.exiting = "no"
                 THEN [waiting EXCEPT !.exiting = "gone"] ELSE waiting
  BY DEF GivesUp
<1>1. ~Connected /\ ~Connected' /\ channel'.at = "lost"
  BY <1>0 DEF Connected
<1>2. view \in View /\ view.exiting \in {"no", "exit", "gone"}
  <2>1. view \in View
    BY StreamFacts
  <2> QED
    BY <2>1 DEF View
<1>3. /\ waiting \in View /\ waiting.number = view.number /\ waiting.exiting = view.exiting
      /\ view.request = "none" => waiting.request = "none"
  <2> DEFINE to == IF view.request = "waits" THEN "failed" ELSE view.request
  <2>1. waiting = [view EXCEPT !.request = to]
    BY <1>2
  <2>2. to \in {"none", "waits", "pending", "resolved", "absent", "failed"} /\ (view.request = "none" => to = "none")
    BY <1>2 DEF View
  <2> HIDE DEF to, waiting
  <2> QED
    BY <1>2, <2>1, <2>2 DEF View
<1> HIDE DEF waiting
<1>4. /\ view' \in View /\ view'.number = view.number
      /\ view'.exiting = IF Viewed /\ recorded /\ view.exiting = "no" THEN "gone" ELSE view.exiting
      /\ view'.request = waiting.request
  <2>1. CASE Viewed /\ recorded /\ view.exiting = "no"
    <3>1. view' = [waiting EXCEPT !.exiting = "gone"]
      BY <1>0, <2>1
    <3> QED
      BY <1>3, <2>1, <3>1 DEF View
  <2>2. CASE ~(Viewed /\ recorded /\ view.exiting = "no")
    BY <1>0, <1>3, <2>2
  <2> QED
    BY <2>1, <2>2
<1>5. Shows => view.exiting # "exit"
  BY <1>0, ExitKnown
<1>6. ~Shows'
  BY <1>2, <1>4, <1>5, StreamFacts DEF Shows, Viewed, EndOK
<1>7. terminal' \in [printed: Outputs, sent: Outputs, alive: BOOLEAN]
      /\ terminal'.sent = terminal.sent /\ terminal'.printed = terminal.printed /\ ~terminal'.alive
  <2>1. terminal \in [printed: Outputs, sent: Outputs, alive: BOOLEAN]
    BY StreamFacts DEF StreamTypeOK
  <2> QED
    BY <1>0, <2>1
<1>8. StreamTypeOK'
  BY <1>0, <1>4, <1>7, StreamFacts DEF StreamTypeOK
<1>9. socket = <<>>
  BY <1>1, StreamFacts DEF SocketOK
<1>10. SocketOK(r)'
  <2>1. Len(socket') = 0
    BY <1>0, <1>9
  <2> QED
    BY <1>0, <1>9, <2>1 DEF SocketOK
<1>11. NumbersOK'
  BY <1>0, <1>4, StreamFacts DEF NumbersOK
<1>12. EndOK'
  BY <1>0, <1>3, <1>4, <1>7, StreamFacts DEF EndOK, Viewed
<1>13. (terminal.sent <= terminal.printed)' /\ Flow(socket', terminal'.sent, r)
  BY <1>0, <1>7, StreamFacts
<1> QED
  BY <1>6, <1>8, <1>10, <1>11, <1>12, <1>13 DEF StreamAt, ViewOK

LEMMA ReconnectsStep == StreamInv /\ Reconnects => StreamInv'
<1> SUFFICES ASSUME NEW r, StreamAt(r), Reconnects PROVE StreamInv'
  BY DEF StreamInv
<1> DEFINE m == Says(IF terminal.alive THEN "listed" ELSE "unlisted", 0, 0, 0)
<1>0. /\ ~Settling /\ channel.at = "down" /\ channel' = [at |-> "listing", reconnecting |-> TRUE]
      /\ socket' = <<m>> /\ UNCHANGED <<terminal, replays, recorded, view, screen, counts>>
  BY DEF Reconnects
<1>1. m \in WorkerMessage /\ m.kind \in {"listed", "unlisted"} /\ m.for = 0
  BY StreamTypes DEF Says, WorkerMessage
<1> HIDE DEF m
<1>2. ~Connected /\ Connected' /\ channel'.at = "listing" /\ ~Settled'
  <2>1. Shows => view.exiting # "exit"
    BY <1>0, ExitKnown
  <2>2. view.exiting # "exit"
    BY <1>0, <2>1, StreamFacts, NoViewIs DEF Shows, EndOK, Settling, SnapshotInFlight
  <2> QED
    BY <1>0, <2>2 DEF Connected, Settled
<1>3. socket = <<>>
  BY <1>2, StreamFacts DEF SocketOK
<1>4. PICK t, r2 :
        /\ t \in Seq(WorkerMessage) /\ t = socket \o <<m>> /\ Flow(t, terminal.sent, r2)
        /\ Extends(socket, r, t, r2) /\ t[Len(t)] = m
  BY <1>1, StreamFacts, MessageFlows
<1>5. t = <<m>> /\ Len(t) = 1
  BY <1>1, <1>3, <1>4
<1>6. r2[0] = r[0]
  <2>1. 0 \in 0..Len(socket)
    BY <1>3
  <2> QED
    BY <1>4, <2>1 DEF Extends
<1>7. socket' = t
  BY <1>0, <1>5
<1>8. channel' \in [at: {"up", "down", "listing", "listed", "lost"}, reconnecting: BOOLEAN]
  BY <1>0
<1>9. StreamTypeOK'
  BY <1>0, <1>4, <1>7, <1>8, StreamFacts DEF StreamTypeOK
<1>10. SocketOK(r2)'
  <2>1. ASSUME NEW i \in 1..Len(t) PROVE MessageOK(t[i], i, r2[i], terminal, "listing", counts.views)
    <3>1. i = 1 /\ t[i] = m
      BY <1>4, <1>5
    <3>2. 0 <= counts.views
      BY StreamFacts
    <3> QED
      BY <1>1, <3>1, <3>2 DEF MessageOK, ReplayKinds
  <2> QED
    BY <1>0, <1>2, <1>7, <2>1 DEF SocketOK
<1>11. NumbersOK' /\ EndOK'
  BY <1>0, StreamFacts DEF NumbersOK, EndOK, Viewed
<1>12. ASSUME Shows' PROVE (LiveOK(r2) /\ NeedyOK(r2) /\ PendingOK(r2) /\ ResolvedOK(r2) /\ SkippedOK(r2) /\ ExitOK(r2))'
  <2>1. Shows
    BY <1>0, <1>12 DEF Shows, Viewed
  <2>2. LiveOK(r) /\ NeedyOK(r) /\ PendingOK(r)
    BY <2>1, StreamFacts DEF ViewOK
  <2>3. view.request # "pending" /\ view.request # "resolved"
    BY <1>0, <1>2, <2>2 DEF PendingOK, Settling
  <2>4. NoReplayFor(view.number, replays, socket) => NoReplayFor(view.number, replays', socket')
    <3>1. view.number # 0
      BY <2>1 DEF Shows, Viewed
    <3> QED
      BY <1>0, <1>1, <1>4, <1>5, <1>7, <3>1 DEF NoReplayFor
  <2>5. LiveOK(r2)'
    BY <1>0, <1>2, <2>2, <2>4 DEF LiveOK
  <2>6. NeedyOK(r2)'
    BY <1>0, <1>2, <1>6, <2>2, <2>4 DEF NeedyOK
  <2>7. PendingOK(r2)' /\ ResolvedOK(r2)' /\ SkippedOK(r2)' /\ ExitOK(r2)'
    BY <1>0, <1>2, <2>3 DEF PendingOK, ResolvedOK, SkippedOK, ExitOK, Settled
  <2> QED
    BY <2>5, <2>6, <2>7
<1>13. StreamAt(r2)'
  BY <1>0, <1>4, <1>7, <1>9, <1>10, <1>11, <1>12, StreamFacts DEF StreamAt, ViewOK
<1> QED
  BY <1>13 DEF StreamInv

LEMMA ChannelClosesStep == StreamInv /\ ChannelCloses => StreamInv'
<1> SUFFICES ASSUME NEW r, StreamAt(r), ChannelCloses PROVE StreamInv'
  BY DEF StreamInv
<1> DEFINE fails == view.request = "pending" \/ (view.request = "waits" /\ channel.at = "listing")
<1>0. /\ ~Settling /\ channel.at \in {"up", "listing"} /\ counts.cuts < MaxCuts
      /\ counts' = [counts EXCEPT !.cuts = @ + 1]
      /\ channel' = [at |-> "down", reconnecting |-> channel.at = "up"]
      /\ socket' = <<>> /\ replays' = [v \in 1..MaxViews |-> NoReplay]
      /\ view' = IF fails THEN [view EXCEPT !.request = "failed"] ELSE view
      /\ UNCHANGED <<terminal, recorded, screen>>
  BY DEF ChannelCloses
<1>1. ~Connected' /\ channel'.at = "down"
  BY <1>0 DEF Connected
<1>2. /\ view' \in View /\ view'.number = view.number /\ view'.needs = view.needs
      /\ view'.buffer = view.buffer /\ view'.out = view.out /\ view'.skipped = view.skipped
      /\ view'.exiting = view.exiting /\ view'.restored = view.restored
      /\ view'.request = IF fails THEN "failed" ELSE view.request
  <2>1. view \in View
    BY StreamFacts
  <2> HIDE DEF fails
  <2>2. CASE fails
    <3>1. view' = [view EXCEPT !.request = "failed"]
      BY <1>0, <2>2
    <3> QED
      BY <2>1, <2>2, <3>1 DEF View
  <2>3. CASE ~fails
    BY <1>0, <2>1, <2>3
  <2> QED
    BY <2>2, <2>3
<1>3. PICK r2 : Flow(<<>>, terminal.sent, r2) /\ r2[0] = terminal.sent
  BY StreamFacts, FlowEmpty
<1>4. counts' \in [views: 0..MaxViews, cuts: 0..MaxCuts, pressures: 0..MaxPressures,
                   timeouts: 0..MaxTimeouts] /\ counts'.views = counts.views
  <2>1. counts \in [views: 0..MaxViews, cuts: 0..MaxCuts, pressures: 0..MaxPressures,
                   timeouts: 0..MaxTimeouts]
    BY StreamFacts DEF StreamTypeOK
  <2>2. counts.cuts + 1 \in 0..MaxCuts
    BY <1>0, <2>1, StreamTypes
  <2> QED
    BY <1>0, <2>1, <2>2
<1>5. replays' \in [1..MaxViews -> Replay] /\ \A v \in 1..MaxViews : replays'[v].at = "none"
  BY <1>0, StreamTypes DEF NoReplay, Replay
<1>6. StreamTypeOK'
  <2>1. socket' \in Seq(WorkerMessage)
    BY <1>0
  <2>2. channel' \in [at: {"up", "down", "listing", "listed", "lost"}, reconnecting: BOOLEAN]
    BY <1>0
  <2> QED
    BY <1>0, <1>2, <1>4, <1>5, <2>1, <2>2, StreamFacts DEF StreamTypeOK
<1>7. Len(socket') = 0
  BY <1>0
<1>8. SocketOK(r2)'
  BY <1>0, <1>7 DEF SocketOK
<1>9. NumbersOK'
  BY <1>2, <1>4, <1>5, StreamFacts DEF NumbersOK
<1>10. EndOK'
  BY <1>0, <1>2, StreamFacts DEF EndOK, Viewed
<1>11. ASSUME Shows' PROVE (LiveOK(r2) /\ NeedyOK(r2) /\ PendingOK(r2) /\ ResolvedOK(r2) /\ SkippedOK(r2) /\ ExitOK(r2))'
  <2>1. Shows
    BY <1>2, <1>11 DEF Shows, Viewed
  <2>2. LiveOK(r) /\ NeedyOK(r) /\ PendingOK(r) /\ ResolvedOK(r) /\ SkippedOK(r) /\ ExitOK(r)
    BY <2>1, StreamFacts DEF ViewOK
  <2>3. NoReplayFor(view.number, replays, socket)'
    <3>1. view'.number \in 1..MaxViews
      BY <1>2, <2>1, StreamFacts, StreamTypes DEF Shows, Viewed
    <3> QED
      BY <1>5, <1>7, <3>1 DEF NoReplayFor
  <2>4. view.request \notin {"resolved", "absent", "failed"} /\ (view.exiting # "no" => view.request # "none")
    BY <1>0 DEF Settling, SnapshotInFlight
  <2>5. LiveOK(r2)'
    <3>1. ~view.needs => ~Settled'
      BY <1>1, <1>2, <2>2, <2>4 DEF LiveOK, Settled
    <3> QED
      BY <1>0, <1>2, <2>2, <2>3, <3>1 DEF LiveOK
  <2>6. NeedyOK(r2)'
    <3>1. ASSUME NEW i \in 1..Len(view.buffer) PROVE view.buffer[i].last <= r2[0]
      <4>1. view.buffer[i].last <= r[0]
        BY <2>2 DEF NeedyOK
      <4>2. view.buffer[i].last \in Nat
        <5>1. view.buffer[i] \in Chunk
          BY StreamFacts
        <5> QED
          BY <5>1, StreamTypes DEF Chunk
      <4> QED
        BY <1>3, <4>1, <4>2, StreamFacts
    <3> QED
      BY <1>1, <1>2, <2>2, <2>3, <3>1 DEF NeedyOK
  <2>7. PendingOK(r2)' /\ ResolvedOK(r2)'
    BY <1>2, <2>4 DEF PendingOK, ResolvedOK
  <2>8. SkippedOK(r2)'
    <3>1. Settled' => Settled /\ r2[0] = r[0]
      BY <1>1, <1>2, <1>3, <2>2 DEF Settled, ExitOK
    <3> QED
      BY <1>2, <2>2, <3>1 DEF SkippedOK
  <2>9. ExitOK(r2)'
    <3> SUFFICES ASSUME view.exiting = "exit" PROVE ExitOK(r2)'
      BY <1>2 DEF ExitOK
    <3>1. channel.at = "up" /\ ~terminal.alive /\ terminal.sent = terminal.printed
      BY <1>0, <2>2 DEF ExitOK
    <3>2. view.request = "pending"
      <4>1. view.request \in {"none", "waits", "pending", "resolved", "absent", "failed"}
        <5>1. view \in View
          BY StreamFacts
        <5> QED
          BY <5>1 DEF View
      <4> QED
        BY <2>2, <2>4, <3>1, <4>1 DEF NeedyOK
    <3> QED
      BY <1>0, <1>1, <1>2, <1>3, <3>1, <3>2 DEF ExitOK
  <2> QED
    BY <2>5, <2>6, <2>7, <2>8, <2>9
<1>12. (terminal.sent <= terminal.printed)' /\ Flow(socket', terminal'.sent, r2)
  BY <1>0, <1>3, StreamFacts
<1>13. StreamAt(r2)'
  BY <1>6, <1>8, <1>9, <1>10, <1>11, <1>12 DEF StreamAt, ViewOK
<1> QED
  BY <1>13 DEF StreamInv
-----------------------------------------------------------------------------
(* A message is handled *)

Taken(r, r2) ==
    /\ socket # <<>> /\ socket' = Tail(socket) /\ UNCHANGED <<terminal, replays>>
    /\ Flow(socket', terminal.sent, r2) /\ \A i \in 0..Len(socket) - 1 : r2[i] = r[i + 1]

LEMMA TakenIs ==
    ASSUME NEW r, StreamAt(r), NEW r2, Taken(r, r2)
    PROVE  /\ Connected /\ socket[1] \in WorkerMessage /\ socket' \in Seq(WorkerMessage)
           /\ Len(socket') \in Nat
           /\ MessageOK(socket[1], 1, r[1], terminal, channel.at, counts.views)
           /\ r2[0] = r[1] /\ r[1] \in Nat /\ r[0] <= r[1] /\ r2[0] <= terminal.sent
           /\ IF socket[1].kind = "output"
              THEN socket[1].first = r[0] + 1 /\ socket[1].last = r[1] /\ r[0] < r[1]
              ELSE r[1] = r[0]
           /\ \A at : \A i \in 1..Len(socket') :
                 MessageOK(socket'[i], i, r2[i], terminal, at, counts.views)
           /\ \A v : NoReplayFor(v, replays, socket) => NoReplayFor(v, replays, socket')
<1> USE DEF Taken
<1>1. socket \in Seq(WorkerMessage) /\ SocketOK(r) /\ Flow(socket, terminal.sent, r)
  BY StreamFacts
<1>2. /\ socket[1] \in WorkerMessage /\ 1 \in 1..Len(socket) /\ socket' \in Seq(WorkerMessage)
      /\ Len(socket') = Len(socket) - 1 /\ Len(socket) \in Nat /\ Len(socket') \in Nat
      /\ \A i \in 1..Len(socket') : socket'[i] = socket[i + 1] /\ i + 1 \in 1..Len(socket)
  BY <1>1, TailIs
<1>3. /\ 0 \in 0..Len(socket) - 1 /\ 0 \in 0..Len(socket) /\ 1 \in 0..Len(socket)
      /\ Len(socket) \in 0..Len(socket) /\ 0 + 1 = 1 /\ 1 - 1 = 0 /\ 1 <= Len(socket)
  BY <1>2
<1>4. Connected
  BY <1>1 DEF SocketOK
<1>5. MessageOK(socket[1], 1, r[1], terminal, channel.at, counts.views)
  BY <1>1, <1>2 DEF SocketOK
<1>6. r2[0] = r[1]
  BY <1>3
<1>7. r[1] \in Nat /\ r[0] <= r[1] /\ r[1] <= terminal.sent
  BY <1>1, <1>3 DEF Flow
<1>8. IF socket[1].kind = "output"
      THEN socket[1].first = r[0] + 1 /\ socket[1].last = r[1] /\ r[0] < r[1]
      ELSE r[1] = r[0]
  <2>1. IF socket[1].kind = "output"
        THEN socket[1].first = r[1 - 1] + 1 /\ socket[1].last = r[1] /\ r[1 - 1] < r[1]
        ELSE r[1] = r[1 - 1]
    BY <1>1, <1>2 DEF Flow
  <2> QED
    BY <1>3, <2>1
<1>9. ASSUME NEW i \in 1..Len(socket'), NEW at
      PROVE  MessageOK(socket'[i], i, r2[i], terminal, at, counts.views)
  <2>1. MessageOK(socket[i + 1], i + 1, r[i + 1], terminal, channel.at, counts.views)
    BY <1>1, <1>2 DEF SocketOK
  <2>2. r2[i] = r[i + 1] /\ i + 1 # 1 /\ socket'[i] = socket[i + 1]
    BY <1>2
  <2> QED
    BY <2>1, <2>2 DEF MessageOK
<1>10. ASSUME NEW v, NoReplayFor(v, replays, socket) PROVE NoReplayFor(v, replays, socket')
  BY <1>2, <1>10 DEF NoReplayFor
<1> QED
  BY <1>2, <1>4, <1>5, <1>6, <1>7, <1>8, <1>9, <1>10

LEMMA TakenStep ==
    ASSUME NEW r, StreamAt(r), NEW r2, Taken(r, r2), StreamTypeOK', Connected',
           counts'.views = counts.views, view'.number = view.number \/ view'.number = 0,
           EndOK', ViewOK(r2)'
    PROVE  StreamInv'
<1>1. SocketOK(r2)'
  BY TakenIs DEF SocketOK, Taken
<1>2. NumbersOK'
  BY StreamFacts DEF NumbersOK, Taken
<1>3. StreamAt(r2)'
  BY <1>1, <1>2, StreamFacts DEF StreamAt, Taken
<1> QED
  BY <1>3 DEF StreamInv

\* The message is nothing to the view
LEMMA Passes ==
    ASSUME NEW r, StreamAt(r), NEW r2, Taken(r, r2), Shows, screen' = screen, Connected',
           view'.number = view.number, view'.needs = view.needs, view'.request = view.request,
           view'.cut = view.cut, view'.buffer = view.buffer, view'.out = view.out,
           view'.skipped = view.skipped, view'.restored = view.restored,
           view.exiting # "no" => view'.exiting # "no",
           socket[1].kind # "output", view.request = "pending" => socket[1].for # view.number,
           channel'.at = "up" => channel.at = "up", Settled' => Settled
    PROVE  (LiveOK(r2) /\ NeedyOK(r2) /\ PendingOK(r2) /\ ResolvedOK(r2) /\ SkippedOK(r2))'
<1>1. LiveOK(r) /\ NeedyOK(r) /\ PendingOK(r) /\ ResolvedOK(r) /\ SkippedOK(r)
  BY StreamFacts DEF ViewOK
<1>2. r2[0] = r[0] /\ r[0] \in Nat /\ replays' = replays /\ terminal' = terminal
  BY TakenIs, StreamFacts DEF Taken
<1>3. NoReplayFor(view.number, replays, socket) => NoReplayFor(view.number, replays', socket')
  BY <1>2, TakenIs
<1>4. LiveOK(r2)'
  BY <1>1, <1>2, <1>3 DEF LiveOK
<1>5. NeedyOK(r2)'
  BY <1>1, <1>2, <1>3 DEF NeedyOK
<1>6. PendingOK(r2)'
  <2> SUFFICES ASSUME view.request = "pending" PROVE \E cut \in Outputs : ReplayOK(view.number, cut, r2)'
    BY DEF PendingOK
  <2> DEFINE v == view.number
             at == replays[v].at
             own == replays[v].cut
             s == socket
  <2>1. PICK cut \in Outputs : ReplayOK(v, cut, r)
    BY <1>1 DEF PendingOK
  <2>2. /\ MailOK(s, at, own, v, cut, r)
        /\ HeardOK(s, at, v, cut, r[0], terminal.sent, screen, view.buffer)
    BY <2>1 DEF ReplayOK
  <2>3. /\ s \in Seq(WorkerMessage) /\ s # <<>> /\ s[1].for # v
        /\ \A i \in 0..Len(s) - 1 : r2[i] = r[i + 1]
    BY StreamFacts DEF Taken
  <2> HIDE DEF v, at, own, s
  <2>4. MailOK(Tail(s), at, own, v, cut, r2)
    BY <2>2, <2>3, MailLeaves
  <2>5. \A kind : Carries(Tail(s), v, kind) <=> Carries(s, v, kind)
    BY <2>3, CarriesLess
  <2>6. HeardOK(Tail(s), at, v, cut, r[0], terminal.sent, screen, view.buffer)
    BY <2>2, <2>5 DEF HeardOK
  <2>7. ReplayOK(view.number, cut, r2)'
    BY <1>2, <2>4, <2>6 DEF ReplayOK, Taken, v, at, own, s
  <2> QED
    BY <2>7
<1>7. ResolvedOK(r2)'
  BY <1>1, <1>2, <1>3 DEF ResolvedOK
<1>8. SkippedOK(r2)'
  BY <1>1, <1>2 DEF SkippedOK
<1> QED
  BY <1>4, <1>5, <1>6, <1>7, <1>8

LEMMA ExitStep ==
    ASSUME NEW r, StreamAt(r), NEW r2, Taken(r, r2), HandlesExit(socket[1]) PROVE StreamInv'
<1> DEFINE how == IF channel.at = "up" THEN "exit" ELSE "gone"
<1>0. /\ socket[1].kind = "exit" /\ recorded' = FALSE /\ UNCHANGED <<screen, counts, channel>>
      /\ UNCHANGED <<terminal, replays>>
      /\ IF recorded THEN Exited(how) ELSE UNCHANGED view
  BY DEF HandlesExit, Taken
<1>1. /\ ~terminal.alive /\ terminal.sent = terminal.printed /\ r[1] = terminal.sent
      /\ socket[1].for = 0 /\ r2[0] = terminal.sent
  BY <1>0, TakenIs DEF MessageOK, ReplayKinds
<1>2. view \in View /\ view.exiting \in {"no", "exit", "gone"} /\ how \in {"exit", "gone"}
  <2>1. view \in View
    BY StreamFacts
  <2> QED
    BY <2>1 DEF View
<1> HIDE DEF how
<1>3. /\ view' \in View
      /\ view'.number = view.number /\ view'.needs = view.needs /\ view'.request = view.request
      /\ view'.cut = view.cut /\ view'.buffer = view.buffer /\ view'.out = view.out
      /\ view'.skipped = view.skipped /\ view'.restored = view.restored
      /\ view'.exiting = IF recorded /\ Viewed /\ view.exiting = "no" THEN how ELSE view.exiting
  <2>1. CASE recorded /\ Viewed /\ view.exiting = "no"
    <3>1. view' = [view EXCEPT !.exiting = how]
      BY <1>0, <2>1 DEF Exited
    <3> QED
      BY <1>2, <2>1, <3>1 DEF View
  <2>2. CASE ~(recorded /\ Viewed /\ view.exiting = "no")
    <3>1. view' = view
      BY <1>0, <2>2 DEF Exited
    <3> QED
      BY <1>2, <2>2, <3>1
  <2> QED
    BY <2>1, <2>2
<1>4. StreamTypeOK'
  BY <1>0, <1>3, TakenIs, StreamFacts DEF StreamTypeOK
<1>5. Connected' /\ (Viewed' <=> Viewed)
  BY <1>0, <1>3, TakenIs DEF Connected, Viewed
<1>6. EndOK'
  BY <1>0, <1>1, <1>2, <1>3, <1>5, StreamFacts DEF EndOK
<1>7. ASSUME Shows' PROVE (LiveOK(r2) /\ NeedyOK(r2) /\ PendingOK(r2) /\ ResolvedOK(r2) /\ SkippedOK(r2) /\ ExitOK(r2))'
  <2>1. Shows
    BY <1>2, <1>3, <1>5, <1>7 DEF Shows
  <2>2. ExitOK(r) /\ view.number # 0
    BY <2>1, StreamFacts DEF ViewOK, Shows, Viewed
  <2>3. ExitOK(r2)'
    BY <1>0, <1>1, <1>3, <2>2 DEF ExitOK, how
  <2>4. Settled' => Settled
    BY <1>0, <1>3, <2>3 DEF Settled, ExitOK, how
  <2>5. (LiveOK(r2) /\ NeedyOK(r2) /\ PendingOK(r2) /\ ResolvedOK(r2) /\ SkippedOK(r2))'
    <3>1. /\ screen' = screen /\ socket[1].kind # "output"
          /\ view.request = "pending" => socket[1].for # view.number
          /\ channel'.at = "up" => channel.at = "up"
          /\ view.exiting # "no" => view'.exiting # "no"
      BY <1>0, <1>1, <1>3, <2>2
    <3> QED
      BY <1>3, <1>5, <2>1, <2>4, <3>1, Passes
  <2> QED
    BY <2>3, <2>5
<1> QED
  BY <1>0, <1>3, <1>4, <1>5, <1>6, <1>7, TakenStep DEF ViewOK

LEMMA ListStep ==
    ASSUME NEW r, StreamAt(r), NEW r2, Taken(r, r2), HandlesList(socket[1]) PROVE StreamInv'
<1>0. /\ socket[1].kind \in {"listed", "unlisted"} /\ channel' = [channel EXCEPT !.at = "listed"]
      /\ recorded' = (recorded /\ socket[1].kind = "listed") /\ UNCHANGED <<screen, counts>>
      /\ UNCHANGED <<terminal, replays>>
      /\ IF recorded /\ socket[1].kind = "unlisted" THEN Exited("gone") ELSE UNCHANGED view
  BY DEF HandlesList, Taken
<1>1. channel.at = "listing" /\ socket[1].for = 0 /\ socket[1].kind # "output"
  BY <1>0, TakenIs DEF MessageOK, ReplayKinds
<1>2. view \in View /\ view.exiting \in {"no", "exit", "gone"}
  <2>1. view \in View
    BY StreamFacts
  <2> QED
    BY <2>1 DEF View
<1>3. /\ view' \in View
      /\ view'.number = view.number /\ view'.needs = view.needs /\ view'.request = view.request
      /\ view'.cut = view.cut /\ view'.buffer = view.buffer /\ view'.out = view.out
      /\ view'.skipped = view.skipped /\ view'.restored = view.restored
      /\ view'.exiting = IF recorded /\ socket[1].kind = "unlisted" /\ Viewed /\ view.exiting = "no"
                         THEN "gone" ELSE view.exiting
  <2>1. CASE recorded /\ socket[1].kind = "unlisted" /\ Viewed /\ view.exiting = "no"
    <3>1. view' = [view EXCEPT !.exiting = "gone"]
      BY <1>0, <2>1 DEF Exited
    <3> QED
      BY <1>2, <2>1, <3>1 DEF View
  <2>2. CASE ~(recorded /\ socket[1].kind = "unlisted" /\ Viewed /\ view.exiting = "no")
    <3>1. view' = view
      BY <1>0, <2>2 DEF Exited
    <3> QED
      BY <1>2, <2>2, <3>1
  <2> QED
    BY <2>1, <2>2
<1>4. channel' \in [at: {"up", "down", "listing", "listed", "lost"}, reconnecting: BOOLEAN]
      /\ channel'.at = "listed"
  <2>1. channel \in [at: {"up", "down", "listing", "listed", "lost"}, reconnecting: BOOLEAN]
    BY StreamFacts DEF StreamTypeOK
  <2> QED
    BY <1>0, <2>1
<1>5. StreamTypeOK'
  BY <1>0, <1>3, <1>4, TakenIs, StreamFacts DEF StreamTypeOK
<1>6. Connected' /\ (Viewed' <=> Viewed)
  BY <1>3, <1>4 DEF Connected, Viewed
<1>7. EndOK'
  BY <1>0, <1>2, <1>3, <1>6, StreamFacts DEF EndOK
<1>8. ASSUME Shows' PROVE (LiveOK(r2) /\ NeedyOK(r2) /\ PendingOK(r2) /\ ResolvedOK(r2) /\ SkippedOK(r2) /\ ExitOK(r2))'
  <2>1. Shows
    BY <1>2, <1>3, <1>6, <1>8 DEF Shows
  <2>2. ExitOK(r) /\ view.number # 0
    BY <2>1, StreamFacts DEF ViewOK, Shows, Viewed
  <2>3. view'.exiting # "exit"
    BY <1>1, <1>3, <2>2 DEF ExitOK
  <2>4. ExitOK(r2)' /\ ~Settled'
    BY <1>4, <2>3 DEF ExitOK, Settled
  <2>5. (LiveOK(r2) /\ NeedyOK(r2) /\ PendingOK(r2) /\ ResolvedOK(r2) /\ SkippedOK(r2))'
    <3>1. /\ screen' = screen /\ socket[1].kind # "output"
          /\ view.request = "pending" => socket[1].for # view.number
          /\ channel'.at = "up" => channel.at = "up"
          /\ view.exiting # "no" => view'.exiting # "no"
      BY <1>0, <1>1, <1>3, <1>4, <2>2
    <3> QED
      BY <1>3, <1>6, <2>1, <2>4, <3>1, Passes
  <2> QED
    BY <2>4, <2>5
<1> QED
  BY <1>0, <1>3, <1>5, <1>6, <1>7, <1>8, TakenStep DEF ViewOK
\* Output that is shown
LEMMA ShowsOutput ==
    ASSUME NEW r, StreamAt(r), NEW r2, Taken(r, r2), Viewed, socket[1].kind = "output",
           NEW b \in Chunk, b.first = r[0] + 1, b.last = r[1],
           ~view.needs, view.request = "none", view' = [view EXCEPT !.out = Append(@, b)],
           UNCHANGED <<recorded, screen, channel, counts>>
    PROVE  StreamInv'
<1> DEFINE q == Append(view.out, b)
<1>1. q \in Seq(Chunk) /\ view \in View /\ view' = [view EXCEPT !.out = q]
  BY StreamFacts DEF View
<1> HIDE DEF q
<1>2. /\ view' \in View /\ view'.out = q
      /\ view'.number = view.number /\ view'.needs = view.needs /\ view'.request = view.request
      /\ view'.buffer = view.buffer /\ view'.exiting = view.exiting
      /\ view'.skipped = view.skipped /\ view'.restored = view.restored
  BY ONLY <1>1 DEF View
<1>3. StreamTypeOK'
  BY <1>2, TakenIs, StreamFacts DEF StreamTypeOK, Taken
<1>4. Connected' /\ (Viewed' <=> Viewed) /\ (Shows' <=> Shows) /\ (Settled' <=> Settled)
  BY <1>2, TakenIs DEF Connected, Viewed, Shows, Settled
<1>5. EndOK'
  BY <1>2, <1>4, StreamFacts DEF EndOK, Taken
<1>6. ASSUME Shows PROVE (LiveOK(r2) /\ NeedyOK(r2) /\ PendingOK(r2) /\ ResolvedOK(r2) /\ SkippedOK(r2) /\ ExitOK(r2))'
  <2>1. LiveOK(r) /\ ExitOK(r)
    BY <1>6, StreamFacts DEF ViewOK
  <2>2. /\ view.buffer = <<>> /\ view.skipped = <<>> /\ ~screen.replaying
        /\ NoReplayFor(view.number, replays, socket)
        /\ Settled => screen.exact /\ Chain(screen.shown, view.out, r[0])
    BY <2>1 DEF LiveOK
  <2>3. Settled => Chain(screen.shown, q, r2[0])
    <3>1. Chain(screen.shown, view.out, r[0]) => Chain(screen.shown, q, b.last)
      BY StreamFacts, ChainAppend DEF q
    <3> QED
      BY <2>2, <3>1, TakenIs
  <2>4. NoReplayFor(view.number, replays, socket)'
    BY <1>2, <2>2, TakenIs DEF Taken
  <2>5. LiveOK(r2)'
    BY <1>2, <1>4, <2>2, <2>3, <2>4 DEF LiveOK
  <2>6. NeedyOK(r2)' /\ PendingOK(r2)' /\ ResolvedOK(r2)' /\ SkippedOK(r2)'
    <3>1. Len(view'.buffer) = 0
      BY <1>2, <2>2
    <3> QED
      BY <1>2, <3>1 DEF NeedyOK, PendingOK, ResolvedOK, SkippedOK
  <2>7. ExitOK(r2)'
    BY <1>2, <2>1, TakenIs, StreamFacts DEF ExitOK, Taken
  <2> QED
    BY <2>5, <2>6, <2>7
<1> QED
  BY <1>2, <1>3, <1>4, <1>5, <1>6, TakenStep DEF ViewOK

\* Output that is kept
LEMMA KeepsOutput ==
    ASSUME NEW r, StreamAt(r), NEW r2, Taken(r, r2), Viewed, socket[1].kind = "output",
           NEW b \in Chunk, b.first = r[0] + 1, b.last = r[1],
           view.needs \/ view.request # "none", view' = [view EXCEPT !.buffer = Append(@, b)],
           UNCHANGED <<recorded, screen, channel, counts>>
    PROVE  StreamInv'
<1> DEFINE q == Append(view.buffer, b)
<1>1. q \in Seq(Chunk) /\ view \in View /\ view' = [view EXCEPT !.buffer = q]
  BY StreamFacts DEF View
<1>40. /\ Len(q) = Len(view.buffer) + 1 /\ Len(view.buffer) \in Nat
       /\ \A i \in 1..Len(view.buffer) : q[i] = view.buffer[i]
       /\ q[Len(view.buffer) + 1] = b
  <2>1. view.buffer \in Seq(Chunk)
    BY StreamFacts
  <2> QED
    BY ONLY <2>1, AppendIs, b \in Chunk DEF q
<1> HIDE DEF q
<1>2. /\ view' \in View /\ view'.buffer = q
      /\ view'.number = view.number /\ view'.needs = view.needs /\ view'.request = view.request
      /\ view'.out = view.out /\ view'.exiting = view.exiting /\ view'.cut = view.cut
      /\ view'.skipped = view.skipped /\ view'.restored = view.restored
  BY ONLY <1>1 DEF View
<1>3. StreamTypeOK'
  BY <1>2, TakenIs, StreamFacts DEF StreamTypeOK, Taken
<1>4. Connected' /\ (Viewed' <=> Viewed) /\ (Shows' <=> Shows) /\ (Settled' <=> Settled)
  BY <1>2, TakenIs DEF Connected, Viewed, Shows, Settled
<1>5. EndOK'
  BY <1>2, <1>4, StreamFacts DEF EndOK, Taken
<1>6. /\ r2[0] = b.last /\ r[0] < b.last /\ r[0] \in Nat /\ b.last \in Nat /\ replays' = replays
      /\ terminal' = terminal /\ socket' = Tail(socket)
  BY TakenIs, StreamFacts DEF Taken
<1>7. ASSUME Shows PROVE (LiveOK(r2) /\ NeedyOK(r2) /\ PendingOK(r2) /\ ResolvedOK(r2) /\ SkippedOK(r2) /\ ExitOK(r2))'
  <2>1. LiveOK(r) /\ NeedyOK(r) /\ PendingOK(r) /\ ResolvedOK(r) /\ ExitOK(r)
    BY <1>7, StreamFacts DEF ViewOK
  <2>2. view.needs
    BY <2>1 DEF LiveOK
  <2>3. LiveOK(r2)'
    BY <1>2, <2>2 DEF LiveOK
  <2>4. NoReplayFor(view.number, replays, socket) => NoReplayFor(view.number, replays, socket)'
    BY <1>2, <1>6, TakenIs
  <2>5. NeedyOK(r2)'
    <3>1. ASSUME NEW i \in 1..Len(q) PROVE q[i].last <= r2[0]
      <4>1. CASE i = Len(view.buffer) + 1
        <5>1. q[i] = b
          BY ONLY <1>40, <4>1, Zenon
        <5>2. b.last <= r2[0]
          BY ONLY <1>6
        <5> QED
          BY ONLY <5>1, <5>2
      <4>2. CASE i # Len(view.buffer) + 1
        <5>1. i \in 1..Len(view.buffer)
          BY <1>40, <4>2
        <5>2. view.buffer[i].last <= r[0] /\ q[i] = view.buffer[i]
          BY <1>40, <2>1, <5>1 DEF NeedyOK
        <5>3. view.buffer[i].last \in Nat
          <6>1. view.buffer[i] \in Chunk
            BY <5>1, StreamFacts
          <6> QED
            BY <6>1, StreamTypes DEF Chunk
        <5> QED
          BY <1>6, <5>2, <5>3
      <4> QED
        BY <4>1, <4>2
    <3> QED
      BY <1>2, <2>1, <2>4, <3>1 DEF NeedyOK
  <2>6. PendingOK(r2)'
    <3> SUFFICES ASSUME view.request = "pending" PROVE \E cut \in Outputs : ReplayOK(view.number, cut, r2)'
      BY <1>2, <1>4 DEF PendingOK
    <3> DEFINE v == view.number
               at == replays[v].at
               own == replays[v].cut
               s == socket
    <3>1. PICK cut \in Outputs : ReplayOK(v, cut, r)
      BY <2>1 DEF PendingOK
    <3>2. /\ MailOK(s, at, own, v, cut, r)
          /\ HeardOK(s, at, v, cut, r[0], terminal.sent, screen, view.buffer)
      BY <3>1 DEF ReplayOK
    <3>3. /\ s \in Seq(WorkerMessage) /\ s # <<>> /\ s[1].for # v /\ cut \in Nat
          /\ \A i \in 0..Len(s) - 1 : r2[i] = r[i + 1]
      <4>1. v # 0
        BY DEF Viewed
      <4>2. s[1].for = 0
        BY TakenIs DEF MessageOK, ReplayKinds
      <4> QED
        BY <4>1, <4>2, StreamFacts, StreamTypes DEF Taken
    <3>41. Carries(s, v, "begin") => b.last <= cut
      <4> SUFFICES ASSUME NEW i \in 1..Len(s), s[i].for = v, s[i].kind = "begin" PROVE b.last <= cut
        BY DEF Carries
      <4>1. r[i] = cut
        BY <3>2 DEF MailOK
      <4>2. r[1] <= r[i]
        <5>1. Len(socket) \in Nat /\ Flow(socket, terminal.sent, r)
          BY StreamFacts
        <5>2. 1 \in 0..Len(socket) /\ i \in 0..Len(socket) /\ 1 <= i
          BY <5>1
        <5> QED
          BY <5>1, <5>2 DEF Flow
      <4> QED
        BY <4>1, <4>2
    <3> HIDE DEF v, at, own, s
    <3>4. MailOK(Tail(s), at, own, v, cut, r2)
      BY <3>2, <3>3, MailLeaves
    <3>5. \A kind : Carries(Tail(s), v, kind) <=> Carries(s, v, kind)
      BY <3>3, CarriesLess
    <3>6. HeardOK(Tail(s), at, v, cut, r2[0], terminal.sent, screen, q)
      <4> SUFFICES ASSUME at # "asked", ~Carries(s, v, "gone")
                   PROVE  /\ cut <= terminal.sent
                          /\ ~Carries(s, v, "begin") => cut <= r2[0]
                          /\ at # "begun" /\ ~Carries(s, v, "end") => AtCut(screen, cut)
                          /\ Beyond(cut, q, r2[0])
        BY <3>5 DEF HeardOK
      <4>1. /\ cut <= terminal.sent
            /\ ~Carries(s, v, "begin") => cut <= r[0]
            /\ at # "begun" /\ ~Carries(s, v, "end") => AtCut(screen, cut)
            /\ Beyond(cut, view.buffer, r[0])
        BY <3>2 DEF HeardOK
      <4>0. cut \in Nat /\ r2[0] = b.last /\ r[0] < b.last /\ r[0] \in Nat /\ b.last \in Nat
        BY <1>6, <3>3
      <4>2. ~Carries(s, v, "begin") => cut <= r[0] /\ cut <= r2[0]
        <5>1. cut <= r[0] => cut <= r2[0]
          BY ONLY <4>0
        <5> QED
          BY ONLY <4>1, <5>1
      <4>3. b.last <= cut \/ cut <= r[0]
        BY <3>41, <4>2
      <4>4. Beyond(cut, Append(view.buffer, b), b.last)
        BY <1>6, <3>3, <4>1, <4>3, StreamFacts, BeyondAppend
      <4>5. Beyond(cut, q, r2[0])
        BY <4>0, <4>4 DEF q
      <4> QED
        BY ONLY <4>1, <4>2, <4>5
    <3>7. ReplayOK(view.number, cut, r2)'
      BY <1>2, <1>6, <3>4, <3>6 DEF ReplayOK, v, at, own, s
    <3> QED
      BY <3>7
  <2>7. ResolvedOK(r2)'
    <3> SUFFICES ASSUME view.request = "resolved" PROVE ResolvedOK(r2)'
      BY <1>2 DEF ResolvedOK
    <3>1. /\ NoReplayFor(view.number, replays, socket) /\ AtCut(screen, view.cut)
          /\ view.cut <= r[0] /\ Beyond(view.cut, view.buffer, r[0]) /\ view.cut \in Nat
      BY <2>1, StreamFacts, StreamTypes DEF ResolvedOK
    <3>2. Beyond(view.cut, Append(view.buffer, b), b.last)
      BY <1>6, <3>1, StreamFacts, BeyondAppend
    <3>3. view.cut <= r2[0]
      BY <1>6, <3>1
    <3> QED
      BY <1>2, <1>4, <1>6, <2>4, <3>1, <3>2, <3>3 DEF ResolvedOK, q
  <2>8. SkippedOK(r2)'
    <3>1. q # <<>> /\ q[Len(q)] = b
      <4>1. q[Len(q)] = b
        BY ONLY <1>40, Zenon
      <4>2. q # <<>>
        BY ONLY <1>1, <1>40
      <4> QED
        BY ONLY <4>1, <4>2
    <3>2. Settled /\ view.needs /\ view.restored => view.skipped # <<>>
      BY <1>7, StreamFacts DEF ViewOK, SkippedOK
    <3> QED
      BY <1>2, <1>4, <1>6, <3>1, <3>2 DEF SkippedOK
  <2>9. ExitOK(r2)'
    BY <1>2, <2>1, TakenIs, StreamFacts DEF ExitOK, Taken
  <2> QED
    BY <2>3, <2>5, <2>6, <2>7, <2>8, <2>9
<1> QED
  BY <1>2, <1>3, <1>4, <1>5, <1>7, TakenStep DEF ViewOK

LEMMA OutputHandled ==
    ASSUME NEW r, StreamAt(r), NEW r2, Taken(r, r2), HandlesOutput(socket[1]) PROVE StreamInv'
<1> DEFINE b == [first |-> socket[1].first, last |-> socket[1].last]
<1>0. socket[1].kind = "output" /\ UNCHANGED <<recorded, screen, channel, terminal, replays>>
  BY DEF HandlesOutput, Taken
<1>1. b \in Chunk /\ b.first = r[0] + 1 /\ b.last = r[1]
  <2>1. socket[1].first = r[0] + 1 /\ socket[1].last = r[1] /\ r[0] < r[1] /\ r[0] \in Nat
    BY <1>0, TakenIs, StreamFacts
  <2>2. socket[1].first \in Outputs /\ socket[1].last \in Outputs
    <3>1. socket[1] \in WorkerMessage
      BY TakenIs
    <3> QED
      BY <3>1 DEF WorkerMessage
  <2> QED
    BY <2>1, <2>2, StreamTypes DEF Chunk, Outputs
<1>2. CASE ~Viewed
  <2>1. view' = view /\ counts' = counts
    BY <1>2 DEF HandlesOutput
  <2>2. StreamTypeOK' /\ Connected' /\ ~Viewed'
    BY <1>0, <1>2, <2>1, TakenIs, StreamFacts DEF StreamTypeOK, Connected, Viewed
  <2>3. EndOK'
    BY <1>0, <2>1, StreamFacts DEF EndOK, Viewed
  <2>4. ViewOK(r2)'
    BY <2>2 DEF ViewOK, Shows
  <2> QED
    BY <2>1, <2>2, <2>3, <2>4, TakenStep
<1>3. CASE Viewed /\ ~view.needs /\ view.request = "none"
  <2>1. view' = [view EXCEPT !.out = Append(@, b)] /\ counts' = counts
    BY <1>3 DEF HandlesOutput, SnapshotInFlight
  <2> HIDE DEF b
  <2> QED
    BY <1>0, <1>1, <1>3, <2>1, ShowsOutput
<1>4. CASE Viewed /\ ~(~view.needs /\ view.request = "none")
  <2>1. CASE view' = [view EXCEPT !.buffer = Append(@, b)] /\ counts' = counts
    <3> HIDE DEF b
    <3> QED
      BY <1>0, <1>1, <1>4, <2>1, KeepsOutput
  <2>2. CASE /\ view' = NoView /\ counts.timeouts < MaxTimeouts
             /\ counts' = [counts EXCEPT !.timeouts = @ + 1]
    <3>1. counts' \in [views: 0..MaxViews, cuts: 0..MaxCuts, pressures: 0..MaxPressures,
                       timeouts: 0..MaxTimeouts] /\ counts'.views = counts.views
      <4>1. counts \in [views: 0..MaxViews, cuts: 0..MaxCuts, pressures: 0..MaxPressures,
                       timeouts: 0..MaxTimeouts]
        BY StreamFacts DEF StreamTypeOK
      <4>2. counts.timeouts + 1 \in 0..MaxTimeouts
        BY <2>2, <4>1, StreamTypes
      <4> QED
        BY <2>2, <4>1, <4>2
    <3>2. StreamTypeOK' /\ Connected' /\ ~Viewed' /\ view'.number = 0
      BY <1>0, <2>2, <3>1, TakenIs, StreamFacts, NoViewIs DEF StreamTypeOK, Connected, Viewed
    <3>3. EndOK'
      BY <1>0, <2>2, <3>2, NoViewIs, StreamFacts DEF EndOK
    <3>4. ViewOK(r2)'
      BY <3>2 DEF ViewOK, Shows
    <3> QED
      BY <3>1, <3>2, <3>3, <3>4, TakenStep
  <2> QED
    BY <1>4, <2>1, <2>2 DEF HandlesOutput, SnapshotInFlight, Releases
<1> QED
  BY <1>2, <1>3, <1>4
\* What a message of a replay that is awaited tells of the others
NextIsFor(s, v, at, own, cut, r) ==
    /\ s \in Seq(WorkerMessage) /\ s # <<>> /\ s[1].for = v
    /\ at \in {"none", "asked", "begun", "ended"} /\ MailOK(s, at, own, v, cut, r)

LEMMA AwaitedIs ==
    ASSUME NEW s, NEW v, NEW at, NEW own, NEW cut, NEW r, NextIsFor(s, v, at, own, cut, r)
    PROVE  /\ at # "asked"
           /\ s[1].kind = "begin" => r[1] = cut /\ (at # "begun" => Carries(Tail(s), v, "end"))
           /\ s[1].kind \in {"end", "reply"} => s[1].last = cut /\ ~Carries(s, v, "begin")
           /\ s[1].kind \in {"begin", "end"} => ~Carries(Tail(s), v, "begin")
           /\ s[1].kind = "end" => ~Carries(Tail(s), v, "end") /\ at # "begun"
           /\ s[1].kind = "reply" => /\ at = "none" /\ ~Carries(s, v, "end") /\ ~Carries(s, v, "gone")
                                     /\ \A i \in 1..Len(Tail(s)) : Tail(s)[i].for # v
<1> USE DEF NextIsFor
<1> DEFINE t == Tail(s)
<1>1. /\ Len(s) \in Nat /\ Len(t) = Len(s) - 1 /\ Len(t) \in Nat /\ 1 \in 1..Len(s)
      /\ \A i \in 1..Len(t) : t[i] = s[i + 1] /\ i + 1 \in 1..Len(s)
  BY TailIs
<1> HIDE DEF t
<1>2. \A i \in 1..Len(t) : t[i].for = v => Rank(s[1].kind) < Rank(t[i].kind)
  <2> SUFFICES ASSUME NEW i \in 1..Len(t), t[i].for = v PROVE Rank(s[1].kind) < Rank(t[i].kind)
    OBVIOUS
  <2>1. 1 < i + 1 /\ i + 1 \in 1..Len(s) /\ s[i + 1].for = v /\ t[i] = s[i + 1]
    BY <1>1
  <2>2. \A j, k \in 1..Len(s) : j < k /\ s[j].for = v /\ s[k].for = v => Rank(s[j].kind) < Rank(s[k].kind)
    BY DEF MailOK
  <2> QED
    BY <1>1, <2>1, <2>2
<1>3. \A kind : Carries(t, v, kind) => Rank(s[1].kind) < Rank(kind)
  BY <1>2 DEF Carries
<1>4. \A kind : Carries(s, v, kind) => Carries(t, v, kind) \/ s[1].kind = kind
  BY CarriesLess DEF t
<1>5. /\ at # "asked" /\ (at = "begun" => s[1].kind = "begin")
      /\ at = "ended" => s[1].kind \in {"begin", "end"}
      /\ s[1].kind = "begin" => r[1] = cut
      /\ s[1].kind \in {"end", "reply"} => s[1].last = cut
  BY <1>1 DEF MailOK
<1>6. s[1].kind = "begin" /\ at # "begun" => Carries(t, v, "end")
  <2>1. s[1].kind = "begin" => Carries(s, v, "begin")
    BY <1>1 DEF Carries
  <2>2. Carries(s, v, "begin") /\ at # "begun" => Carries(s, v, "end")
    BY DEF MailOK
  <2> QED
    BY <1>4, <2>1, <2>2
<1>7. s[1].kind \in {"end", "reply"} => ~Carries(s, v, "begin")
  BY <1>3, <1>4 DEF Rank
<1>8. s[1].kind \in {"begin", "end"} => ~Carries(t, v, "begin")
  BY <1>3 DEF Rank
<1>9. s[1].kind = "end" => ~Carries(t, v, "end") /\ at # "begun"
  BY <1>3, <1>5 DEF Rank
<1>10. ASSUME s[1].kind = "reply" PROVE /\ ~Carries(s, v, "end") /\ ~Carries(s, v, "gone")
                                        /\ \A i \in 1..Len(t) : t[i].for # v
  BY <1>2, <1>3, <1>4, <1>10 DEF Rank
<1> QED
  BY <1>5, <1>6, <1>7, <1>8, <1>9, <1>10 DEF t
\* The screen is set, or cleared for the replay
LEMMA ReplayDraws ==
    ASSUME NEW r, StreamAt(r), NEW r2, Taken(r, r2), HandlesReplay(socket[1]), Awaited(socket[1]),
           socket[1].kind \in {"begin", "end"}
    PROVE  StreamInv'
<1> DEFINE m == socket[1]
           v == view.number
           at == replays[v].at
           own == replays[v].cut
           s == socket
<1>0. /\ UNCHANGED <<view, recorded, counts, channel, terminal, replays>> /\ socket' = Tail(s)
      /\ Viewed /\ view.request = "pending" /\ m.for = v
      /\ screen' = IF m.kind = "begin" THEN Reset(screen) ELSE Restored(screen, m.last)
  BY DEF HandlesReplay, Awaited, Taken
<1>1. m \in WorkerMessage /\ m.last \in Outputs /\ r2[0] = r[0] /\ v \in 1..MaxViews
      /\ m.kind # "output" /\ Connected
  <2>1. m \in WorkerMessage /\ r2[0] = r[1] /\ r[1] = r[0] /\ Connected
    BY TakenIs
  <2>2. v \in 1..MaxViews
    BY <1>0, StreamFacts, StreamTypes DEF Viewed
  <2>3. m.last \in Outputs
    BY <2>1 DEF WorkerMessage
  <2> QED
    BY <2>1, <2>2, <2>3
<1>2. /\ screen' \in Screen /\ screen'.closed = screen.closed
      /\ m.kind = "end" => AtCut(screen', m.last)
  <2>1. screen \in Screen /\ m.last \in Outputs
    BY <1>1, StreamFacts
  <2>2. Reset(screen) \in Screen /\ Reset(screen).closed = screen.closed
    BY ONLY <2>1 DEF Reset, Screen
  <2>3. Restored(screen, m.last) \in Screen /\ Restored(screen, m.last).closed = screen.closed
        /\ AtCut(Restored(screen, m.last), m.last)
    BY ONLY <2>1 DEF Restored, Screen, AtCut
  <2> QED
    BY <1>0, <2>2, <2>3
<1>3. StreamTypeOK' /\ Connected' /\ (Viewed' <=> Viewed) /\ (Shows' <=> Shows) /\ (Settled' <=> Settled)
  BY <1>0, <1>1, <1>2, TakenIs, StreamFacts DEF StreamTypeOK, Screen, Connected, Viewed, Shows, Settled
<1>4. EndOK'
  <2>1. ~screen.closed
    BY <1>0, StreamFacts DEF EndOK
  <2> QED
    BY <1>0, <1>2, <2>1, StreamFacts DEF EndOK, Viewed
<1>5. ASSUME Shows PROVE (LiveOK(r2) /\ NeedyOK(r2) /\ PendingOK(r2) /\ ResolvedOK(r2) /\ SkippedOK(r2) /\ ExitOK(r2))'
  <2>1. LiveOK(r) /\ NeedyOK(r) /\ PendingOK(r) /\ SkippedOK(r) /\ ExitOK(r)
    BY <1>5, StreamFacts DEF ViewOK
  <2>2. view.needs
    BY <1>0, <2>1 DEF LiveOK
  <2>3. LiveOK(r2)' /\ NeedyOK(r2)' /\ ResolvedOK(r2)'
    BY <1>0, <1>1, <2>1, <2>2 DEF LiveOK, NeedyOK, ResolvedOK
  <2>4. SkippedOK(r2)' /\ ExitOK(r2)'
    BY <1>0, <1>1, <1>3, <2>1 DEF SkippedOK, ExitOK
  <2>5. PICK cut \in Outputs : ReplayOK(v, cut, r)
    BY <1>0, <2>1 DEF PendingOK
  <2>6. /\ MailOK(s, at, own, v, cut, r)
        /\ HeardOK(s, at, v, cut, r[0], terminal.sent, screen, view.buffer)
    BY <2>5 DEF ReplayOK
  <2>7. /\ s \in Seq(WorkerMessage) /\ s # <<>> /\ s[1].for = v
        /\ s[1].kind \in {"begin", "end"}
        /\ \A i \in 0..Len(s) - 1 : r2[i] = r[i + 1]
        /\ at \in {"none", "asked", "begun", "ended"}
    <3>1. replays[v] \in Replay
      BY <1>1, StreamFacts
    <3>2. at \in {"none", "asked", "begun", "ended"}
      BY <3>1 DEF Replay
    <3> QED
      BY <1>0, <3>2, StreamFacts DEF Taken
  <2>40. r[1] = r[0] /\ r[0] \in Nat
    BY <1>1, TakenIs, StreamFacts
  <2> HIDE DEF v, at, own, s, m
  <2>8. /\ at # "asked"
        /\ s[1].kind = "begin" => r[1] = cut /\ (at # "begun" => Carries(Tail(s), v, "end"))
        /\ s[1].kind \in {"end", "reply"} => s[1].last = cut /\ ~Carries(s, v, "begin")
        /\ s[1].kind \in {"begin", "end"} => ~Carries(Tail(s), v, "begin")
        /\ s[1].kind = "end" => ~Carries(Tail(s), v, "end") /\ at # "begun"
    <3>1. NextIsFor(s, v, at, own, cut, r)
      BY <2>6, <2>7 DEF NextIsFor
    <3> QED
      BY <3>1, AwaitedIs
  <2>9. MailOK(Tail(s), at, own, v, cut, r2)
    BY <2>6, <2>7, MailLeaves
  <2>10. Carries(s, v, "gone") => Carries(Tail(s), v, "gone")
    BY <2>7, CarriesLess
  <2>11. HeardOK(Tail(s), at, v, cut, r[0], terminal.sent, screen', view.buffer)
    <3> SUFFICES ASSUME ~Carries(Tail(s), v, "gone")
                 PROVE  /\ cut <= terminal.sent
                        /\ ~Carries(Tail(s), v, "begin") => cut <= r[0]
                        /\ at # "begun" /\ ~Carries(Tail(s), v, "end") => AtCut(screen', cut)
                        /\ Beyond(cut, view.buffer, r[0])
      BY DEF HeardOK
    <3>1. /\ cut <= terminal.sent
          /\ ~Carries(s, v, "begin") => cut <= r[0]
          /\ Beyond(cut, view.buffer, r[0])
      BY <2>6, <2>8, <2>10 DEF HeardOK
    <3>2. CASE s[1].kind = "begin"
      <4>1. cut <= r[0]
        BY <2>8, <2>40, <3>2
      <4> QED
        BY <2>8, <3>1, <3>2, <4>1
    <3>3. CASE s[1].kind = "end"
      <4>1. cut <= r[0]
        BY <2>8, <3>1, <3>3
      <4>2. AtCut(screen', cut)
        BY <1>2, <2>8, <3>3 DEF m, s
      <4> QED
        BY <3>1, <4>1, <4>2
    <3> QED
      BY <2>7, <3>2, <3>3
  <2>12. ReplayOK(view.number, cut, r2)'
    BY <1>0, <1>1, <2>9, <2>11 DEF ReplayOK, v, at, own, s
  <2>13. PendingOK(r2)'
    BY <1>3, <2>12 DEF PendingOK
  <2> QED
    BY <2>3, <2>4, <2>13
<1> QED
  BY <1>0, <1>3, <1>4, <1>5, TakenStep DEF ViewOK

\* The answer to the request
LEMMA ReplayAnswers ==
    ASSUME NEW r, StreamAt(r), NEW r2, Taken(r, r2), HandlesReplay(socket[1]), Awaited(socket[1]),
           socket[1].kind \in {"reply", "gone"}
    PROVE  StreamInv'
<1> DEFINE m == socket[1]
           v == view.number
           at == replays[v].at
           own == replays[v].cut
           s == socket
           to == IF m.kind = "reply" THEN "resolved" ELSE "absent"
<1>0. /\ UNCHANGED <<screen, recorded, counts, channel, terminal, replays>> /\ socket' = Tail(s)
      /\ Viewed /\ view.request = "pending" /\ m.for = v
      /\ view' = [view EXCEPT !.request = to, !.cut = m.last]
  BY DEF HandlesReplay, Awaited, Taken
<1>1. m \in WorkerMessage /\ m.last \in Outputs /\ r2[0] = r[0] /\ v \in 1..MaxViews
      /\ m.kind # "output" /\ Connected
  <2>1. m \in WorkerMessage /\ r2[0] = r[1] /\ r[1] = r[0] /\ Connected
    BY TakenIs
  <2>2. v \in 1..MaxViews
    BY <1>0, StreamFacts, StreamTypes DEF Viewed
  <2>3. m.last \in Outputs
    BY <2>1 DEF WorkerMessage
  <2> QED
    BY <2>1, <2>2, <2>3
<1>2. /\ view' \in View /\ view'.request = to /\ view'.cut = m.last
      /\ view'.number = view.number /\ view'.needs = view.needs /\ view'.buffer = view.buffer
      /\ view'.out = view.out /\ view'.exiting = view.exiting
      /\ view'.skipped = view.skipped /\ view'.restored = view.restored
  <2> DEFINE c == m.last
  <2>1. view \in View /\ c \in Outputs /\ to \in {"resolved", "absent"} /\ view' = [view EXCEPT !.request = to, !.cut = c]
    BY <1>0, <1>1, StreamFacts
  <2> HIDE DEF to, c
  <2>2. view' \in View
    BY ONLY <2>1 DEF View
  <2>3. /\ view'.request = to /\ view'.cut = c
        /\ view'.number = view.number /\ view'.needs = view.needs /\ view'.buffer = view.buffer
        /\ view'.out = view.out /\ view'.exiting = view.exiting
        /\ view'.skipped = view.skipped /\ view'.restored = view.restored
    BY ONLY <2>1 DEF View
  <2> QED
    BY <2>2, <2>3 DEF c
<1>3. StreamTypeOK' /\ Connected' /\ (Viewed' <=> Viewed) /\ (Shows' <=> Shows) /\ (Settled' <=> Settled)
  BY <1>0, <1>1, <1>2, TakenIs, StreamFacts DEF StreamTypeOK, Connected, Viewed, Shows, Settled
<1>4. EndOK'
  BY <1>0, <1>2, <1>3, StreamFacts DEF EndOK
<1>5. ASSUME Shows PROVE (LiveOK(r2) /\ NeedyOK(r2) /\ PendingOK(r2) /\ ResolvedOK(r2) /\ SkippedOK(r2) /\ ExitOK(r2))'
  <2>1. LiveOK(r) /\ NeedyOK(r) /\ PendingOK(r) /\ SkippedOK(r) /\ ExitOK(r)
    BY <1>5, StreamFacts DEF ViewOK
  <2>2. view.needs
    BY <1>0, <2>1 DEF LiveOK
  <2>40. to \in {"resolved", "absent"} /\ (to = "resolved" => m.kind = "reply")
    OBVIOUS
  <2>3. LiveOK(r2)' /\ NeedyOK(r2)' /\ PendingOK(r2)'
    <3> HIDE DEF to
    <3> QED
      BY <1>0, <1>1, <1>2, <2>1, <2>2, <2>40 DEF LiveOK, NeedyOK, PendingOK
  <2>4. SkippedOK(r2)' /\ ExitOK(r2)'
    <3>1. ~(channel.at = "down" /\ view.request \in {"none", "failed"})
      BY <1>0
    <3> HIDE DEF to
    <3> QED
      BY <1>0, <1>1, <1>2, <1>3, <2>1, <3>1 DEF SkippedOK, ExitOK
  <2>5. PICK cut \in Outputs : ReplayOK(v, cut, r)
    BY <1>0, <2>1 DEF PendingOK
  <2>6. /\ MailOK(s, at, own, v, cut, r)
        /\ HeardOK(s, at, v, cut, r[0], terminal.sent, screen, view.buffer)
    BY <2>5 DEF ReplayOK
  <2>7. /\ s \in Seq(WorkerMessage) /\ s # <<>> /\ s[1].for = v
        /\ at \in {"none", "asked", "begun", "ended"}
    <3>1. replays[v] \in Replay
      BY <1>1, StreamFacts
    <3>2. at \in {"none", "asked", "begun", "ended"}
      BY <3>1 DEF Replay
    <3> QED
      BY <1>0, <3>2, StreamFacts DEF Taken
  <2>8. ResolvedOK(r2)'
    <3> SUFFICES ASSUME m.kind = "reply" PROVE ResolvedOK(r2)'
      BY <1>2, <2>40 DEF ResolvedOK
    <3>41. s[1].kind = "reply" /\ s[1].last = m.last
      OBVIOUS
    <3> HIDE DEF v, at, own, s, m, to
    <3>1. /\ s[1].last = cut /\ ~Carries(s, v, "begin")
          /\ at = "none" /\ ~Carries(s, v, "end") /\ ~Carries(s, v, "gone")
          /\ \A i \in 1..Len(Tail(s)) : Tail(s)[i].for # v
      <4>1. NextIsFor(s, v, at, own, cut, r)
        BY <2>6, <2>7 DEF NextIsFor
      <4> QED
        BY <3>41, <4>1, AwaitedIs
    <3>2. cut <= r[0] /\ AtCut(screen, cut) /\ Beyond(cut, view.buffer, r[0])
      BY <2>6, <3>1 DEF HeardOK
    <3>3. NoReplayFor(view.number, replays, socket)'
      BY <1>0, <1>2, <3>1 DEF NoReplayFor, v, at, s
    <3>4. view'.cut = cut
      BY <1>2, <3>1, <3>41
    <3> QED
      BY <1>0, <1>1, <1>2, <1>3, <3>2, <3>3, <3>4 DEF ResolvedOK
  <2> QED
    BY <2>3, <2>4, <2>8
<1> QED
  BY <1>0, <1>2, <1>3, <1>4, <1>5, TakenStep DEF ViewOK

\* Nobody waits for it
LEMMA ReplayIgnored ==
    ASSUME NEW r, StreamAt(r), NEW r2, Taken(r, r2), HandlesReplay(socket[1]), ~Awaited(socket[1])
    PROVE  StreamInv'
<1>0. /\ UNCHANGED <<view, screen, recorded, counts, channel, terminal, replays>>
      /\ socket[1].kind # "output" /\ socket' = Tail(socket)
      /\ Viewed /\ view.request = "pending" => socket[1].for # view.number
  BY DEF HandlesReplay, Awaited, Taken
<1>3. StreamTypeOK' /\ Connected' /\ (Viewed' <=> Viewed) /\ (Shows' <=> Shows) /\ (Settled' <=> Settled)
  BY <1>0, TakenIs, StreamFacts DEF StreamTypeOK, Connected, Viewed, Shows, Settled
<1>4. EndOK'
  BY <1>0, StreamFacts DEF EndOK, Viewed
<1>5. ASSUME Shows PROVE (LiveOK(r2) /\ NeedyOK(r2) /\ PendingOK(r2) /\ ResolvedOK(r2) /\ SkippedOK(r2) /\ ExitOK(r2))'
  <2>1. ExitOK(r) /\ Viewed
    BY <1>5, StreamFacts DEF ViewOK, Shows
  <2>2. r2[0] = r[0]
    BY <1>0, TakenIs
  <2>3. ExitOK(r2)'
    BY <1>0, <2>1, <2>2 DEF ExitOK
  <2>4. (LiveOK(r2) /\ NeedyOK(r2) /\ PendingOK(r2) /\ ResolvedOK(r2) /\ SkippedOK(r2))'
    BY <1>0, <1>3, <1>5, <2>1, Passes
  <2> QED
    BY <2>3, <2>4
<1> QED
  BY <1>0, <1>3, <1>4, <1>5, TakenStep DEF ViewOK

LEMMA HandlesStep == StreamInv /\ Handles => StreamInv'
<1> SUFFICES ASSUME NEW r, StreamAt(r), Handles PROVE StreamInv'
  BY DEF StreamInv
<1>0. socket # <<>> /\ socket' = Tail(socket) /\ UNCHANGED <<terminal, replays>> /\ Head(socket) = socket[1]
  BY DEF Handles
<1>1. PICK r2 : Flow(Tail(socket), terminal.sent, r2) /\ \A i \in 0..Len(socket) - 1 : r2[i] = r[i + 1]
  BY <1>0, StreamFacts, FlowTail
<1>2. Taken(r, r2)
  BY <1>0, <1>1 DEF Taken
<1>3. HandlesOutput(socket[1]) \/ HandlesReplay(socket[1]) \/ HandlesExit(socket[1]) \/ HandlesList(socket[1])
  BY <1>0 DEF Handles
<1>4. ASSUME HandlesReplay(socket[1]) PROVE StreamInv'
  <2>1. socket[1].kind \in {"begin", "end", "reply", "gone"}
    BY <1>4 DEF HandlesReplay
  <2> QED
    BY <1>2, <1>4, <2>1, ReplayDraws, ReplayAnswers, ReplayIgnored
<1> QED
  BY <1>2, <1>3, <1>4, OutputHandled, ExitStep, ListStep
LEMMA StreamStutters == ASSUME StreamInv, UNCHANGED streamVars PROVE StreamInv'
<1> PICK r : StreamAt(r)
  BY DEF StreamInv
<1> USE DEF streamVars
<1>1. StreamTypeOK' /\ SocketOK(r)' /\ NumbersOK' /\ EndOK' /\ (terminal.sent <= terminal.printed)'
      /\ Flow(socket', terminal'.sent, r)
  BY StreamFacts DEF StreamTypeOK, SocketOK, MessageOK, NumbersOK, EndOK, Viewed, Connected
<1>2. ViewOK(r)'
  <2> SUFFICES ASSUME Shows' PROVE (LiveOK(r) /\ NeedyOK(r) /\ PendingOK(r) /\ ResolvedOK(r) /\ SkippedOK(r) /\ ExitOK(r))'
    BY DEF ViewOK
  <2>1. LiveOK(r) /\ NeedyOK(r) /\ PendingOK(r) /\ ResolvedOK(r) /\ SkippedOK(r) /\ ExitOK(r)
    BY StreamFacts DEF ViewOK, Shows, Viewed
  <2>2. (LiveOK(r) /\ NeedyOK(r) /\ ResolvedOK(r) /\ SkippedOK(r) /\ ExitOK(r))'
    BY <2>1 DEF LiveOK, NeedyOK, ResolvedOK, SkippedOK, ExitOK, Settled, Connected
  <2>3. PendingOK(r)'
    BY <2>1 DEF PendingOK, ReplayOK, Connected
  <2> QED
    BY <2>2, <2>3
<1>3. StreamAt(r)'
  BY <1>1, <1>2 DEF StreamAt
<1> QED
  BY <1>3 DEF StreamInv

(***************************************************************************)
(* The inductive invariant of the terminal stream.                         *)
(***************************************************************************)
THEOREM StreamInvHolds == StreamSpec => []StreamInv
<1>1. StreamInit => StreamInv
  BY StreamStarts
<1>2. StreamInv /\ [StreamNext]_streamVars => StreamInv'
  <2> SUFFICES ASSUME StreamInv, [StreamNext]_streamVars PROVE StreamInv'
    OBVIOUS
  <2>1. CASE StreamSteps
    <3>1. ASSUME NEW v \in 1..MaxViews, StartsReplay(v) \/ EndsReplay(v) PROVE StreamInv'
      BY <3>1, StartsReplayStep, EndsReplayStep
    <3> QED
      BY <2>1, <3>1, FlushesWorkerStep, HandlesStep, FlushesStreamStep, SnapshotReturnsStep,
         CompletesStep, ReconnectsStep, AdoptsStep DEF StreamSteps
  <2>2. CASE Prints
    BY <2>2, PrintsStep DEF StreamInv
  <2>3. CASE UNCHANGED streamVars
    BY <2>3, StreamStutters
  <2> QED
    BY <2>1, <2>2, <2>3, TerminalExitsStep, AttachesStep, DetachesStep, RequestTimesOutStep,
       ChannelClosesStep, GivesUpStep DEF StreamNext
<1> QED
  BY <1>1, <1>2, PTL DEF StreamSpec

(***************************************************************************)
(* However replays, live output, losses of the connection and pressure     *)
(* meet, for any number of each, a viewer shows every output up to some    *)
(* one in order and once, and has the last one when it sees the terminal   *)
(* exit; and the variables have their types.                               *)
(***************************************************************************)
THEOREM ScreenIsExactHolds == StreamSpec => []ScreenIsExact
<1>1. StreamInv => ScreenIsExact
  BY ScreenFollows
<1> QED
  BY <1>1, StreamInvHolds, PTL

THEOREM StreamTypesHold == StreamSpec => []StreamTypeOK
<1>1. StreamInv => StreamTypeOK
  BY ScreenFollows
<1> QED
  BY <1>1, StreamInvHolds, PTL

=============================================================================
