------------------------ MODULE SubscriptionsProofs ------------------------
(***************************************************************************)
(* What a caller is promised of its finish subscriptions, for any number   *)
(* of registrations, failures, restarts and crashes: its intent is kept,   *)
(* it is told at most once per start, and it is protected meanwhile.       *)
(*                                                                         *)
(* All rest on the order of the registrations.  What recovery attaches was *)
(* on disk before any of this start's registrations was made, watches are  *)
(* attached in the order of their numbers, and a candidate replaces only   *)
(* what has a lower number than its own.                                   *)
(*                                                                         *)
(* The last part is about what the notices say, which FinishObservation    *)
(* models: they are true, for any number of turns and requests.            *)
(***************************************************************************)
EXTENDS FinishSubscriptions, FinishObservation, SequenceTheorems, TLAPS, WellFoundedInduction

\* The caller was told of the final outcome, and the watch knows it or is about to
Informed(x) == x.acknowledged \/ (x.at = "ack" /\ x.message = "accepted"
                               /\ x.outcome.kind # "permission")

\* The watch has a message with the delivery lane, or may have one later
Ready(x) == x.message = "queued" \/ (x.at \notin {"none", "done"} /\ ~Informed(x))

Sound(x) ==
    /\ x.left \subseteq x.records
    /\ x.strikes < Attempts \/ (x.outcome.kind = "unreachable" /\ x.at # "done")
    /\ x.at = "observe" => x.outcome.kind = "none"
    /\ x.message = "queued" => x.at \in {"ack", "done"}
    /\ x.acknowledged => x.message = "accepted"
    /\ x.at = "none" => x.records = {} /\ ~x.member

WatchesSound == \A w \in Watch : Sound(watch[w])

\* A record belongs to one watch
OwnRecords ==
    /\ \A r \in Registration : watch[r].records \subseteq {r}
    /\ \A r \in watch[Recovered].records : watch[r].records = {}

\* Registrations are made and attached in the order of their numbers, after what recovery found
InOrder ==
    /\ \A q, r \in Registration : q < r /\ reg[q] = "new" => reg[r] = "new"
    /\ \A w \in Watch, r \in Registration :
          watch[w].at # "none" /\ reg[r] \in {"new", "asked", "stored"} => w < r
    /\ \A q \in watch[Recovered].records, r \in Registration :
          reg[r] \in {"new", "asked", "stored", "candidate"} => q < r
    /\ \A r \in Registration : \A w \in priors[r] : w < r
    /\ \A r \in disk : reg[r] \notin {"new", "asked"}

\* The chain: recovery comes first, registrations in the order of their numbers
Lined(queue, regs) ==
    /\ \A i \in 1..Len(queue) : queue[i].op = "start" => i = 1
    /\ \A i \in 1..Len(queue) : queue[i].op # "start" => queue[i].reg \in Registration
    /\ \A i \in 1..Len(queue) : queue[i].op # "start" => regs[queue[i].reg] # "new"
    /\ \A i, j \in 1..Len(queue) :
          i < j /\ queue[i].op = "register" /\ queue[j].op = "register"
             => queue[i].reg < queue[j].reg

Has(queue, r) == \E i \in 1..Len(queue) : queue[i].op = "register" /\ queue[i].reg = r

ChainShape ==
    /\ Lined(chain, reg)
    /\ \A r \in Registration : reg[r] \in {"asked", "stored"} => Has(chain, r)
    /\ service # "recovering" => \A i \in 1..Len(chain) : chain[i].op # "start"

\* Before recovery is done there is nothing of this start
Fresh ==
    service \in {"down", "recovering"} =>
        /\ \A w \in Watch : watch[w] = NoWatch
        /\ \A r \in Registration : reg[r] \notin {"asked", "stored", "candidate", "rejecting"}
        /\ \A i \in 1..Len(chain) : chain[i].op = "start"

\* What was told, and how often
Heard == \A w \in Watch : Informed(watch[w]) => watch[w].records \subseteq heard

Reported ==
    /\ \A r \in Registration : reports[r] <= lives
    /\ service # "down" => lives > 0
    /\ service = "recovering" => \A r \in Registration : reports[r] < lives
    /\ \A r \in Registration : reg[r] \in {"new", "asked", "stored"} => reports[r] = 0
    /\ \A w \in Watch : Ready(watch[w]) => \A r \in watch[w].records : reports[r] < lives

SubscriptionsInv ==
    /\ TypeOK /\ WatchesSound /\ OwnRecords /\ InOrder /\ ChainShape /\ Fresh
    /\ Heard /\ Reported

-----------------------------------------------------------------------------
\* Without late rejections: what the chain removes

\* A registration's removals are of what it replaced, or of a rejected candidate
Rightful(e, regs) ==
    /\ e.op = "supersede" =>
          /\ regs[e.reg] \in {"accepted", "created"}
          /\ \A q \in e.left : q < e.reg
    /\ e.op = "reject" =>
          /\ regs[e.reg] \in {"rejecting", "rejected"}
          /\ e.left \subseteq {e.reg}

Removals == \A i \in 1..Len(chain) : Rightful(chain[i], reg)

\* What is on disk, was told or must not be told
Safe == disk \cup heard \cup dropped

\* A registration that may still be promised, or was, has its record or a successor
Covered ==
    \A r \in Registration :
        reg[r] \in {"stored", "candidate", "accepted", "created"} =>
            r \in Safe \/ \E q \in Promised : q > r /\ q \in Safe

\* The removal of a watch's records goes on until none is left
Removed ==
    \A w \in Watch : watch[w].at = "remove" =>
        (watch[w].records \ watch[w].left) \cap disk = {}

\* Whoever has a record that counts on disk has a watch
Attended ==
    service = "open" =>
        \A r \in disk : reg[r] \notin {"stored", "rejected"} /\ ~Replaced(r) =>
            \E w \in Watch : r \in watch[w].records /\ watch[w].member

IntentInv == SubscriptionsInv /\ Removals /\ Covered /\ Removed /\ Attended

-----------------------------------------------------------------------------
(***************************************************************************)
(* Types                                                                   *)
(***************************************************************************)
LEMMA Numbers ==
    /\ N \in Nat \ {0} /\ Attempts \in Nat \ {0} /\ Registration \subseteq Nat
    /\ \A r \in Registration : r > 0 /\ r \in Watch
    /\ Watch \subseteq Nat /\ Recovered \in Watch /\ Recovered = 0 /\ Recovered \notin Registration
    /\ \A w \in Watch : w \in Registration \/ w = Recovered
BY SubscriptionsAssumption DEF Registration, Watch, Recovered

LEMMA LeastIsMember ==
    ASSUME NEW S \in SUBSET Registration, S # {}
    PROVE  Least(S) \in S
<1> DEFINE Less == OpToRel(<, Nat)
<1>1. IsWellFoundedOn(Less, Nat) /\ S \subseteq Nat
  BY NatLessThanWellFounded, Numbers
<1> HIDE DEF Less
<1>2. PICK n \in S : \A m \in S : ~(<<m, n>> \in Less)
  BY <1>1, WFMin
<1>3. \A m \in Nat, k \in Nat : m < k => <<m, k>> \in Less
  BY DEF Less, OpToRel
<1>4. ASSUME NEW m \in S PROVE n <= m
  <2>1. m \in Nat /\ n \in Nat /\ ~(m < n)
    BY <1>1, <1>2, <1>3
  <2> QED
    BY <2>1
<1> QED
  BY <1>4 DEF Least

LEMMA NoWatchTyped ==
    NoWatch \in WatchTypes /\ Sound(NoWatch) /\ ~Informed(NoWatch) /\ ~Ready(NoWatch)
BY Numbers DEF NoWatch, WatchTypes, NoOutcome, Outcomes, Sound, Informed, Ready

\* The fields of a watch
LEMMA Fields ==
    ASSUME NEW x \in WatchTypes
    PROVE  /\ x.at \in {"none", "undecided", "check", "observe", "decisions", "waits",
                        "recheck", "ack", "remove", "pause", "done"}
           /\ x.records \subseteq Registration /\ x.left \subseteq Registration
           /\ x.awaited \subseteq Registration
           /\ x.member \in BOOLEAN /\ x.pending \in BOOLEAN /\ x.aborted \in BOOLEAN
           /\ x.decision \in {"none", "yes", "no"} /\ x.outcome \in Outcomes
           /\ x.acknowledged \in BOOLEAN /\ x.told \in BOOLEAN
           /\ x.strikes \in 0..Attempts /\ x.strikes \in Nat
           /\ x.message \in {"none", "queued", "accepted", "refused"}
BY Numbers DEF WatchTypes

LEMMA ChainTyped ==
    ASSUME TypeOK
    PROVE  /\ chain \in Seq(Mutations) /\ Len(chain) \in Nat
           /\ \A i \in 1..Len(chain) :
                 /\ chain[i] \in Mutations /\ chain[i].reg \in Watch
                 /\ chain[i].op \in {"start", "register", "supersede", "reject"}
                 /\ chain[i].left \subseteq Registration
           /\ chain # << >> => 1 \in 1..Len(chain) /\ Head(chain) = chain[1]
<1>1. chain \in Seq(Mutations) /\ Len(chain) \in Nat
  BY DEF TypeOK
<1>2. \A i \in 1..Len(chain) : chain[i] \in Mutations
  BY <1>1
<1>3. chain # << >> => 1 \in 1..Len(chain) /\ Head(chain) = chain[1]
  BY <1>1
<1> QED
  BY <1>1, <1>2, <1>3 DEF Mutations

-----------------------------------------------------------------------------
(***************************************************************************)
(* The steps of watches                                                    *)
(***************************************************************************)
\* What any step does to a watch that it does not make: nothing becomes ready to tell, and
\* what is told stays as it is
Progress(x, y) ==
    /\ y \in WatchTypes /\ Sound(y)
    /\ y.records = x.records /\ (y.member => x.member)
    /\ (y.at = "none") = (x.at = "none")
    /\ Ready(y) => Ready(x)
    /\ Informed(y) => Informed(x)

\* What a step of its own run does to a watch that it neither stops nor takes a record from
Continues(x, y) ==
    /\ Progress(x, y) /\ y.member = x.member
    /\ y.at = "remove" => y.left = y.records \/ (x.at = "remove" /\ y.left = x.left)

LEMMA Stays ==
    ASSUME NEW x \in WatchTypes, Sound(x)
    PROVE  Continues(x, x)
BY DEF Progress, Continues

\* run goes on to a stage that sends and removes nothing
LEMMA GoesTo ==
    ASSUME NEW x \in WatchTypes, Sound(x), x.at \notin {"none", "done"}, x.message # "queued",
           x.at = "ack" => x.message = "refused",
           NEW to \in {"check", "observe", "decisions", "waits", "recheck", "pause"},
           to = "observe" => x.outcome.kind = "none"
    PROVE  Continues(x, [x EXCEPT !.at = to])
<1> DEFINE y == [x EXCEPT !.at = to]
<1>1. /\ y \in WatchTypes /\ y.at = to /\ y.records = x.records /\ y.left = x.left
      /\ y.member = x.member /\ y.message = x.message /\ y.acknowledged = x.acknowledged
      /\ y.outcome = x.outcome /\ y.strikes = x.strikes
  BY DEF WatchTypes
<1> HIDE DEF y
<1>2. Continues(x, y)
  BY <1>1 DEF Progress, Continues, Sound, Ready, Informed
<1> QED
  BY <1>2 DEF y

\* run returns
LEMMA Returns ==
    ASSUME NEW x \in WatchTypes, Sound(x), x.at # "none"
    PROVE  Continues(x, Returned(x)) /\ Returned(x).at = "done"
<1> DEFINE y == Returned(x)
<1>1. NoOutcome \in Outcomes /\ 0 \in 0..Attempts /\ 0 < Attempts
  BY Numbers DEF NoOutcome, Outcomes
<1>2. /\ y \in WatchTypes /\ y.at = "done" /\ y.records = x.records /\ y.left = {}
      /\ y.member = x.member /\ y.message = x.message /\ ~y.acknowledged /\ y.strikes = 0
  BY <1>1 DEF WatchTypes, Returned
<1> HIDE DEF y
<1>3. Continues(x, y)
  BY <1>1, <1>2 DEF Progress, Continues, Sound, Ready, Informed
<1> QED
  BY <1>2, <1>3 DEF y

\* A watch is stopped
LEMMA Stops ==
    ASSUME NEW x \in WatchTypes, Sound(x), NEW keep \in BOOLEAN
    PROVE  LET y == [x EXCEPT !.aborted = TRUE, !.decision = Decided(@, "no"),
                              !.member = @ /\ keep]
           IN  /\ Progress(x, y) /\ y.at = x.at /\ y.left = x.left
               /\ y.member = (x.member /\ keep)
<1> DEFINE y == [x EXCEPT !.aborted = TRUE, !.decision = Decided(@, "no"),
                          !.member = @ /\ keep]
<1>1. Decided(x.decision, "no") \in {"none", "yes", "no"} /\ (x.member /\ keep) \in BOOLEAN
  BY DEF Decided, WatchTypes
<1>2. /\ y \in WatchTypes /\ y.at = x.at /\ y.records = x.records /\ y.left = x.left
      /\ y.member = (x.member /\ keep) /\ y.message = x.message
      /\ y.acknowledged = x.acknowledged /\ y.outcome = x.outcome /\ y.strikes = x.strikes
  BY <1>1 DEF WatchTypes
<1> HIDE DEF y
<1>3. Progress(x, y)
  BY <1>2 DEF Progress, Sound, Ready, Informed
<1> QED
  BY <1>2, <1>3 DEF y

AllSound(ws) == ws \in [Watch -> WatchTypes] /\ \A w \in Watch : Sound(ws[w])

\* The watches of S are stopped, and what is left of them
StopsTo(ws, S, keep, new) ==
    /\ new \in [Watch -> WatchTypes]
    /\ \A w \in Watch : Progress(ws[w], new[w])
    /\ \A w \in Watch \ S : new[w] = ws[w]
    /\ \A w \in Watch : new[w].at = ws[w].at /\ new[w].left = ws[w].left
    /\ keep => \A w \in Watch : new[w].member = ws[w].member

LEMMA StopsAll ==
    ASSUME NEW ws, AllSound(ws), NEW S, NEW keep \in BOOLEAN
    PROVE  StopsTo(ws, S, keep, Cancelled(ws, S, keep))
<1>1. ASSUME NEW w \in Watch
      PROVE  /\ Progress(ws[w], Cancelled(ws, S, keep)[w])
             /\ Cancelled(ws, S, keep)[w].at = ws[w].at
             /\ Cancelled(ws, S, keep)[w].left = ws[w].left
             /\ w \notin S => Cancelled(ws, S, keep)[w] = ws[w]
             /\ keep => Cancelled(ws, S, keep)[w].member = ws[w].member
  <2>1. ws[w] \in WatchTypes /\ Sound(ws[w])
    BY DEF AllSound
  <2>2. CASE w \in S
    <3> DEFINE y == [ws[w] EXCEPT !.aborted = TRUE, !.decision = Decided(@, "no"),
                                     !.member = @ /\ keep]
    <3>1. Cancelled(ws, S, keep)[w] = y
      BY <2>2 DEF Cancelled
    <3>2. /\ Progress(ws[w], y) /\ y.at = ws[w].at /\ y.left = ws[w].left
          /\ y.member = (ws[w].member /\ keep)
      BY <2>1, Stops
    <3>3. ws[w].member \in BOOLEAN
      BY <2>1, Fields
    <3> HIDE DEF y
    <3> QED
      BY <2>2, <3>1, <3>2, <3>3
  <2>3. CASE w \notin S
    <3>1. Cancelled(ws, S, keep)[w] = ws[w]
      BY <2>3 DEF Cancelled
    <3> QED
      BY <2>1, <3>1, Stays DEF Continues
  <2> QED
    BY <2>2, <2>3
<1>2. Cancelled(ws, S, keep) \in [Watch -> WatchTypes]
  <2>1. \A w \in Watch : Cancelled(ws, S, keep)[w] \in WatchTypes
    BY <1>1 DEF Progress
  <2>2. Cancelled(ws, S, keep) = [w \in Watch |-> Cancelled(ws, S, keep)[w]]
    BY DEF Cancelled
  <2> QED
    BY <2>1, <2>2
<1> QED
  BY <1>1, <1>2 DEF StopsTo

\* What a step of watches keeps
LEMMA WatchesKept ==
    ASSUME TypeOK, WatchesSound, OwnRecords, Heard, heard \subseteq heard',
           \A w \in Watch : Progress(watch[w], watch'[w])
    PROVE  WatchesSound' /\ OwnRecords' /\ Heard'
<1>1. \A w \in Watch : /\ Sound(watch'[w]) /\ watch'[w].records = watch[w].records
                       /\ Informed(watch'[w]) => Informed(watch[w])
  BY DEF Progress
<1>2. OwnRecords'
  <2>1. watch[Recovered].records \subseteq Watch
    <3>1. watch[Recovered] \in WatchTypes
      BY Numbers DEF TypeOK
    <3> QED
      BY <3>1, Fields, Numbers
  <2> QED
    BY <1>1, <2>1, Numbers DEF OwnRecords
<1>3. Heard'
  BY <1>1 DEF Heard
<1> QED
  BY <1>1, <1>2, <1>3 DEF WatchesSound

\* No registration is made or attached
Onward ==
    \A r \in Registration :
        /\ reg'[r] \in {"new", "asked", "stored", "candidate"} => reg'[r] = reg[r]
        /\ reg[r] = "new" => reg'[r] = "new"

LEMMA OrderKept ==
    ASSUME InOrder, Onward, priors' = priors, disk' \in SUBSET disk, disk \subseteq Registration,
           \A w \in Watch : Progress(watch[w], watch'[w])
    PROVE  InOrder'
<1>1. \A w \in Watch : /\ watch'[w].records = watch[w].records
                       /\ watch'[w].at # "none" => watch[w].at # "none"
  BY DEF Progress
<1>2. Recovered \in Watch
  BY Numbers
<1>3. \A q, r \in Registration : q < r /\ reg'[q] = "new" => reg'[r] = "new"
  BY DEF InOrder, Onward
<1>4. \A w \in Watch, r \in Registration :
        watch'[w].at # "none" /\ reg'[r] \in {"new", "asked", "stored"} => w < r
  BY <1>1 DEF InOrder, Onward
<1>5. \A q \in watch'[Recovered].records, r \in Registration :
        reg'[r] \in {"new", "asked", "stored", "candidate"} => q < r
  BY <1>1, <1>2 DEF InOrder, Onward
<1>6. \A r \in disk' : reg'[r] \notin {"new", "asked"}
  BY DEF InOrder, Onward
<1> QED
  BY <1>3, <1>4, <1>5, <1>6 DEF InOrder

LEMMA ReportedKept ==
    ASSUME TypeOK, Reported, Onward, reports' = reports, lives' = lives,
           service # "down", service' \notin {"down", "recovering"},
           \A w \in Watch : Progress(watch[w], watch'[w])
    PROVE  Reported'
<1>1. \A w \in Watch : /\ watch'[w].records = watch[w].records
                       /\ Ready(watch'[w]) => Ready(watch[w])
  BY DEF Progress
<1>2. \A w \in Watch : Ready(watch'[w]) => \A r \in watch'[w].records : reports'[r] < lives'
  BY <1>1 DEF Reported
<1>3. \A r \in Registration : reg'[r] \in {"new", "asked", "stored"} => reports'[r] = 0
  BY DEF Reported, Onward
<1> QED
  BY <1>2, <1>3 DEF Reported

-----------------------------------------------------------------------------
(***************************************************************************)
(* The chain                                                               *)
(***************************************************************************)
LEMMA EntryTyped ==
    ASSUME NEW queue \in Seq(Mutations)
    PROVE  /\ Len(queue) \in Nat
           /\ \A i \in 1..Len(queue) :
                 /\ queue[i] \in Mutations /\ queue[i].reg \in Watch
                 /\ queue[i].op \in {"start", "register", "supersede", "reject"}
                 /\ queue[i].left \subseteq Registration
           /\ queue # << >> => 1 \in 1..Len(queue) /\ Head(queue) = queue[1]
<1>1. \A i \in 1..Len(queue) : queue[i] \in Mutations
  OBVIOUS
<1>2. \A i \in 1..Len(queue) : /\ queue[i].reg \in Watch /\ queue[i].left \subseteq Registration
                               /\ queue[i].op \in {"start", "register", "supersede", "reject"}
  BY <1>1 DEF Mutations
<1>3. queue # << >> => 1 \in 1..Len(queue) /\ Head(queue) = queue[1]
  OBVIOUS
<1> QED
  BY <1>1, <1>2, <1>3

LEMMA TailLined ==
    ASSUME NEW queue \in Seq(Mutations), queue # << >>, NEW regs, Lined(queue, regs)
    PROVE  /\ Tail(queue) \in Seq(Mutations) /\ Lined(Tail(queue), regs)
           /\ Len(Tail(queue)) = Len(queue) - 1
           /\ \A i \in 1..Len(Tail(queue)) :
                 /\ i + 1 \in 1..Len(queue)
                 /\ Tail(queue)[i] = queue[i + 1] /\ Tail(queue)[i].op # "start"
           /\ \A r \in Registration :
                 Has(queue, r) /\ ~(queue[1].op = "register" /\ queue[1].reg = r)
                    => Has(Tail(queue), r)
<1> DEFINE rest == Tail(queue)
<1>1. /\ rest \in Seq(Mutations) /\ Len(rest) = Len(queue) - 1 /\ Len(queue) \in Nat
      /\ \A i \in 1..Len(rest) : i + 1 \in 1..Len(queue) /\ rest[i] = queue[i + 1]
      /\ \A i \in 1..Len(queue) : i # 1 => i - 1 \in 1..Len(rest) /\ rest[i - 1] = queue[i]
  OBVIOUS
<1> HIDE DEF rest
<1>2. \A i \in 1..Len(rest) : rest[i].op # "start"
  <2>1. \A i \in 1..Len(rest) : i + 1 # 1
    BY <1>1
  <2> QED
    BY <1>1, <2>1 DEF Lined
<1>3. \A i, j \in 1..Len(rest) :
        i < j /\ rest[i].op = "register" /\ rest[j].op = "register" => rest[i].reg < rest[j].reg
  <2>1. \A i, j \in 1..Len(rest) : i < j => i + 1 < j + 1
    BY <1>1
  <2> QED
    BY <1>1, <2>1 DEF Lined
<1>4. Lined(rest, regs)
  BY <1>1, <1>2, <1>3 DEF Lined
<1>5. ASSUME NEW r \in Registration, Has(queue, r),
             ~(queue[1].op = "register" /\ queue[1].reg = r)
      PROVE  Has(rest, r)
  <2>1. PICK i \in 1..Len(queue) : queue[i].op = "register" /\ queue[i].reg = r
    BY <1>5 DEF Has
  <2>2. i # 1
    BY <1>5, <2>1
  <2> QED
    BY <1>1, <2>1, <2>2 DEF Has
<1> QED
  BY <1>1, <1>2, <1>4, <1>5 DEF rest

LEMMA AppendLined ==
    ASSUME NEW queue \in Seq(Mutations), NEW regs, Lined(queue, regs), NEW e \in Mutations,
           e.op # "start", e.reg \in Registration, regs[e.reg] # "new",
           e.op = "register" =>
              \A i \in 1..Len(queue) : queue[i].op = "register" => queue[i].reg < e.reg
    PROVE  /\ Append(queue, e) \in Seq(Mutations) /\ Lined(Append(queue, e), regs)
           /\ Len(Append(queue, e)) = Len(queue) + 1
           /\ \A i \in 1..Len(queue) : Append(queue, e)[i] = queue[i]
           /\ Append(queue, e)[Len(queue) + 1] = e
           /\ \A r \in Registration : Has(queue, r) => Has(Append(queue, e), r)
<1> DEFINE more == Append(queue, e)
<1>1. /\ more \in Seq(Mutations) /\ Len(more) = Len(queue) + 1 /\ Len(queue) \in Nat
      /\ \A i \in 1..Len(queue) : more[i] = queue[i]
      /\ more[Len(queue) + 1] = e
      /\ \A i \in 1..Len(more) : i \in 1..Len(queue) \/ i = Len(queue) + 1
      /\ \A i \in 1..Len(queue) : i \in 1..Len(more) /\ ~(Len(queue) + 1 < i)
      /\ Len(queue) + 1 \in 1..Len(more)
  OBVIOUS
<1> HIDE DEF more
<1>2. \A i, j \in 1..Len(more) :
        i < j /\ more[i].op = "register" /\ more[j].op = "register" => more[i].reg < more[j].reg
  <2> SUFFICES ASSUME NEW i \in 1..Len(more), NEW j \in 1..Len(more), i < j,
                      more[i].op = "register", more[j].op = "register"
               PROVE  more[i].reg < more[j].reg
    OBVIOUS
  <2>1. CASE j \in 1..Len(queue)
    <3>1. i \in 1..Len(queue)
      BY <1>1, <2>1
    <3> QED
      BY <1>1, <2>1, <3>1 DEF Lined
  <2>2. CASE j = Len(queue) + 1
    <3>1. i \in 1..Len(queue)
      BY <1>1, <2>2
    <3> QED
      BY <1>1, <2>2, <3>1
  <2> QED
    BY <1>1, <2>1, <2>2
<1>3. Lined(more, regs)
  BY <1>1, <1>2 DEF Lined
<1>4. \A r \in Registration : Has(queue, r) => Has(more, r)
  BY <1>1 DEF Has
<1> QED
  BY <1>1, <1>3, <1>4 DEF more

LEMMA EntryMade ==
    ASSUME NEW op \in {"start", "register", "supersede", "reject"}, NEW r \in Watch,
           NEW left \in SUBSET Registration
    PROVE  LET e == [op |-> op, reg |-> r, left |-> left]
           IN  e \in Mutations /\ e.op = op /\ e.reg = r /\ e.left = left
BY DEF Mutations

\* Whoever is known stays known
LEMMA LinedOnward ==
    ASSUME NEW queue \in Seq(Mutations), NEW regs, NEW regs2, Lined(queue, regs),
           \A r \in Registration : regs[r] # "new" => regs2[r] # "new"
    PROVE  Lined(queue, regs2)
BY DEF Lined

\* One record of the head's loop is taken off
LEMMA HeadLined ==
    ASSUME TypeOK, ChainShape, chain # << >>, HeadRemoves
    PROVE  /\ chain' \in Seq(Mutations) /\ Lined(chain', reg) /\ Len(chain') = Len(chain)
           /\ \A i \in 1..Len(chain) : /\ chain'[i].op = chain[i].op
                                       /\ chain'[i].reg = chain[i].reg
                                       /\ chain'[i].left \subseteq chain[i].left
           /\ \A r \in Registration : Has(chain, r) => Has(chain', r)
           /\ disk' = disk \ {Least(chain[1].left)} /\ Least(chain[1].left) \in chain[1].left
           /\ ahead' = ahead
<1>1. /\ chain \in Seq(Mutations) /\ Len(chain) \in Nat /\ 1 \in 1..Len(chain)
      /\ Head(chain) = chain[1] /\ chain[1] \in Mutations
      /\ \A i \in 1..Len(chain) : chain[i] \in Mutations
  BY ChainTyped
<1> DEFINE x == Least(chain[1].left)
<1> DEFINE e == [chain[1] EXCEPT !.left = @ \ {x}]
<1>2. /\ chain[1].left # {} /\ disk' = disk \ {x} /\ ahead' = ahead
      /\ chain' = [chain EXCEPT ![1] = e]
  BY <1>1 DEF HeadRemoves
<1>3. /\ e \in Mutations /\ e.op = chain[1].op /\ e.reg = chain[1].reg
      /\ e.left = chain[1].left \ {x}
  BY <1>1 DEF Mutations
<1>4. x \in chain[1].left
  BY <1>1, <1>2, LeastIsMember DEF Mutations
<1> HIDE DEF x, e
<1>5. /\ chain' \in Seq(Mutations) /\ Len(chain') = Len(chain)
      /\ \A i \in 1..Len(chain) : chain'[i] = IF i = 1 THEN e ELSE chain[i]
  BY <1>1, <1>2, <1>3
<1>6. \A i \in 1..Len(chain) : /\ chain'[i].op = chain[i].op /\ chain'[i].reg = chain[i].reg
                               /\ chain'[i].left \subseteq chain[i].left
  BY <1>3, <1>5
<1>7. Lined(chain', reg)
  BY <1>5, <1>6 DEF ChainShape, Lined
<1>8. \A r \in Registration : Has(chain, r) => Has(chain', r)
  BY <1>5, <1>6 DEF Has
<1> QED
  BY <1>2, <1>4, <1>5, <1>6, <1>7, <1>8 DEF x

-----------------------------------------------------------------------------
(***************************************************************************)
(* The steps of one watch                                                  *)
(***************************************************************************)
Continue == /\ watch' \in [Watch -> WatchTypes]
            /\ \A v \in Watch : Continues(watch[v], watch'[v])

LEMMA WatchTyped ==
    ASSUME TypeOK, WatchesSound, NEW w \in Watch
    PROVE  watch[w] \in WatchTypes /\ Sound(watch[w])
BY DEF TypeOK, WatchesSound

LEMMA OneContinues ==
    ASSUME TypeOK, WatchesSound, NEW w \in Watch, NEW y,
           watch' = [watch EXCEPT ![w] = y], Continues(watch[w], y)
    PROVE  Continue
<1>1. watch \in [Watch -> WatchTypes] /\ y \in WatchTypes
  BY DEF TypeOK, Continues, Progress
<1>2. ASSUME NEW v \in Watch PROVE Continues(watch[v], watch'[v])
  <2>1. CASE v = w
    BY <1>1, <2>1
  <2>2. CASE v # w
    <3>1. watch'[v] = watch[v]
      BY <1>1, <2>2
    <3> QED
      BY <3>1, WatchTyped, Stays
  <2> QED
    BY <2>1, <2>2
<1> QED
  BY <1>1, <1>2 DEF Continue

LEMMA MovesContinues ==
    ASSUME TypeOK, WatchesSound, NEW w \in Watch, NEW to, Moves(w, to),
           watch[w].at # "none",
           to # "done" =>
              /\ to \in {"check", "observe", "decisions", "waits", "recheck", "pause"}
              /\ watch[w].at # "done" /\ watch[w].message # "queued"
              /\ watch[w].at = "ack" => watch[w].message = "refused"
              /\ to = "observe" => watch[w].outcome.kind = "none"
    PROVE  Continue
<1>1. watch[w] \in WatchTypes /\ Sound(watch[w])
  BY WatchTyped
<1>2. CASE to = "done"
  <2>1. watch' = [watch EXCEPT ![w] = Returned(watch[w])]
    BY <1>2 DEF Moves, TypeOK
  <2>2. Continues(watch[w], Returned(watch[w]))
    BY <1>1, Returns
  <2> QED
    BY <2>1, <2>2, OneContinues
<1>3. CASE to # "done"
  <2> DEFINE y == [watch[w] EXCEPT !.at = to]
  <2>1. watch' = [watch EXCEPT ![w] = y]
    BY <1>3 DEF Moves, TypeOK
  <2>2. Continues(watch[w], y)
    BY <1>1, <1>3, GoesTo
  <2> HIDE DEF y
  <2> QED
    BY <2>1, <2>2, OneContinues
<1> QED
  BY <1>2, <1>3

\* The removal of the records begins, with or without the acknowledgment
LEMMA BeginsRemoval ==
    ASSUME NEW x \in WatchTypes, Sound(x), x.at \notin {"none", "done"}, x.message # "queued",
           NEW ack \in BOOLEAN,
           ack => x.message = "accepted" /\ Informed(x),
           ~ack => x.at # "ack"
    PROVE  Continues(x, [x EXCEPT !.at = "remove", !.left = x.records,
                                  !.acknowledged = x.acknowledged \/ ack])
<1> DEFINE y == [x EXCEPT !.at = "remove", !.left = x.records,
                          !.acknowledged = x.acknowledged \/ ack]
<1>1. /\ y \in WatchTypes /\ y.at = "remove" /\ y.records = x.records /\ y.left = x.records
      /\ y.member = x.member /\ y.message = x.message
      /\ y.acknowledged = (x.acknowledged \/ ack)
      /\ y.outcome = x.outcome /\ y.strikes = x.strikes
  BY DEF WatchTypes
<1> HIDE DEF y
<1>2. Continues(x, y)
  BY <1>1 DEF Progress, Continues, Sound, Ready, Informed
<1> QED
  BY <1>2 DEF y

\* A permission request has been told of, or was before: the observation goes on
LEMMA GoesOn ==
    ASSUME NEW x \in WatchTypes, Sound(x), x.at \in {"recheck", "ack"}, x.message # "queued",
           x.outcome.kind = "permission", NEW known \in BOOLEAN
    PROVE  Continues(x, [x EXCEPT !.at = "check", !.told = known, !.outcome = NoOutcome])
<1> DEFINE y == [x EXCEPT !.at = "check", !.told = known, !.outcome = NoOutcome]
<1>1. NoOutcome \in Outcomes
  BY DEF NoOutcome, Outcomes
<1>2. /\ y \in WatchTypes /\ y.at = "check" /\ y.records = x.records /\ y.left = x.left
      /\ y.member = x.member /\ y.message = x.message /\ y.acknowledged = x.acknowledged
      /\ y.outcome = NoOutcome /\ y.strikes = x.strikes
  BY <1>1 DEF WatchTypes
<1> HIDE DEF y
<1>3. Continues(x, y)
  BY <1>2 DEF Progress, Continues, Sound, Ready, Informed
<1> QED
  BY <1>3 DEF y

LEMMA BeginsContinues ==
    ASSUME TypeOK, WatchesSound, NEW w \in Watch, Begins(w)
    PROVE  Continue
<1>1. PICK to \in {"check", "done"} : Moves(w, to)
  BY DEF Begins
<1>2. watch[w].at = "undecided" /\ watch[w].message # "queued"
  BY WatchTyped DEF Begins, Sound
<1> QED
  BY <1>1, <1>2, MovesContinues

LEMMA ChecksContinues ==
    ASSUME TypeOK, WatchesSound, NEW w \in Watch, Checks(w)
    PROVE  Continue
<1>1. /\ watch[w] \in WatchTypes /\ Sound(watch[w])
      /\ watch[w].at = "check" /\ watch[w].message # "queued"
  BY WatchTyped DEF Checks, Sound
<1>2. CASE active
  <2>1. PICK to \in {"done", "observe", "decisions"} :
          Moves(w, to) /\ (to = "observe" => watch[w].outcome = NoOutcome)
    BY <1>2 DEF Checks, AfterCheck
  <2>2. to = "observe" => watch[w].outcome.kind = "none"
    BY <2>1 DEF NoOutcome
  <2> QED
    BY <1>1, <2>1, <2>2, MovesContinues
<1>3. CASE ~active
  <2> DEFINE y == [watch[w] EXCEPT !.at = "remove", !.left = watch[w].records,
                                   !.acknowledged = watch[w].acknowledged \/ FALSE]
  <2>1. watch' = [watch EXCEPT ![w] = [watch[w] EXCEPT !.at = "remove",
                                                      !.left = watch[w].records]]
    BY <1>3 DEF Checks, TypeOK
  <2>2. y = [watch[w] EXCEPT !.at = "remove", !.left = watch[w].records]
    BY <1>1 DEF WatchTypes
  <2>3. Continues(watch[w], y)
    BY <1>1, BeginsRemoval
  <2> HIDE DEF y
  <2> QED
    BY <2>1, <2>2, <2>3, OneContinues
<1> QED
  BY <1>2, <1>3

LEMMA DecisionsContinue ==
    ASSUME TypeOK, WatchesSound, NEW w \in Watch,
           DecisionsPass(w) \/ DecisionsWait(w) \/ DecisionsMade(w)
    PROVE  Continue
<1>1. /\ watch[w] \in WatchTypes /\ Sound(watch[w]) /\ watch[w].at \in {"decisions", "waits"}
      /\ watch[w].message # "queued"
  BY WatchTyped DEF DecisionsPass, DecisionsWait, DecisionsMade, Sound
<1>2. CASE DecisionsPass(w)
  <2>1. PICK to \in {"done", "recheck"} : Moves(w, to)
    BY <1>2 DEF DecisionsPass
  <2> QED
    BY <1>1, <2>1, MovesContinues
<1>3. ASSUME NEW to \in {"waits", "decisions"}, NEW S \in SUBSET Registration,
             watch' = [watch EXCEPT ![w].at = to, ![w].awaited = S]
      PROVE  Continue
  <2> DEFINE y == [watch[w] EXCEPT !.at = to, !.awaited = S]
  <2>1. watch' = [watch EXCEPT ![w] = y]
    BY <1>3 DEF TypeOK
  <2>2. /\ y \in WatchTypes /\ y.at = to /\ y.records = watch[w].records
        /\ y.left = watch[w].left /\ y.member = watch[w].member
        /\ y.message = watch[w].message /\ y.acknowledged = watch[w].acknowledged
        /\ y.outcome = watch[w].outcome /\ y.strikes = watch[w].strikes
    BY <1>1 DEF WatchTypes
  <2> HIDE DEF y
  <2>3. Continues(watch[w], y)
    BY <1>1, <2>2 DEF Progress, Continues, Sound, Ready, Informed
  <2> QED
    BY <2>1, <2>3, OneContinues
<1>4. Pending \subseteq Registration
  BY DEF Pending
<1> QED
  BY <1>2, <1>3, <1>4 DEF DecisionsWait, DecisionsMade

LEMMA RechecksContinues ==
    ASSUME TypeOK, WatchesSound, NEW w \in Watch, Rechecks(w)
    PROVE  Continue
<1>1. /\ watch[w] \in WatchTypes /\ Sound(watch[w]) /\ watch[w].at = "recheck"
      /\ watch[w].message # "queued" /\ watch[w].acknowledged \in BOOLEAN
  BY WatchTyped, Fields DEF Rechecks, Sound
<1>2. CASE watch' = [watch EXCEPT ![w].at = "remove", ![w].left = watch[w].records]
  <2> DEFINE y == [watch[w] EXCEPT !.at = "remove", !.left = watch[w].records,
                                   !.acknowledged = watch[w].acknowledged \/ FALSE]
  <2>1. watch' = [watch EXCEPT ![w] = [watch[w] EXCEPT !.at = "remove",
                                                      !.left = watch[w].records]]
    BY <1>2 DEF TypeOK
  <2>2. y = [watch[w] EXCEPT !.at = "remove", !.left = watch[w].records]
    BY <1>1 DEF WatchTypes
  <2>3. Continues(watch[w], y)
    BY <1>1, BeginsRemoval
  <2> HIDE DEF y
  <2> QED
    BY <2>1, <2>2, <2>3, OneContinues
<1>3. CASE watch' = [watch EXCEPT ![w] = Returned(watch[w])]
  <2>1. Continues(watch[w], Returned(watch[w]))
    BY <1>1, Returns
  <2> QED
    BY <1>3, <2>1, OneContinues
<1>4. CASE /\ watch' = [watch EXCEPT ![w].at = "check", ![w].outcome = NoOutcome]
           /\ watch[w].outcome.kind = "permission"
  <2> DEFINE y == [watch[w] EXCEPT !.at = "check", !.told = watch[w].told,
                                   !.outcome = NoOutcome]
  <2>1. watch' = [watch EXCEPT ![w] = [watch[w] EXCEPT !.at = "check",
                                                      !.outcome = NoOutcome]]
    BY <1>4 DEF TypeOK
  <2>2. y = [watch[w] EXCEPT !.at = "check", !.outcome = NoOutcome]
    BY <1>1 DEF WatchTypes
  <2>3. Continues(watch[w], y)
    BY <1>1, <1>4, GoesOn, Fields
  <2> HIDE DEF y
  <2> QED
    BY <2>1, <2>2, <2>3, OneContinues
<1>5. CASE /\ watch' = [watch EXCEPT ![w].at = "ack", ![w].message = "queued"]
           /\ ~watch[w].acknowledged
  <2> DEFINE y == [watch[w] EXCEPT !.at = "ack", !.message = "queued"]
  <2>1. watch' = [watch EXCEPT ![w] = y]
    BY <1>5 DEF TypeOK
  <2>2. /\ y \in WatchTypes /\ y.at = "ack" /\ y.records = watch[w].records
        /\ y.left = watch[w].left /\ y.member = watch[w].member
        /\ y.message = "queued" /\ y.acknowledged = watch[w].acknowledged
        /\ y.outcome = watch[w].outcome /\ y.strikes = watch[w].strikes
    BY <1>1 DEF WatchTypes
  <2> HIDE DEF y
  <2>3. Continues(watch[w], y)
    BY <1>1, <1>5, <2>2 DEF Progress, Continues, Sound, Ready, Informed
  <2> QED
    BY <2>1, <2>3, OneContinues
<1> QED
  BY <1>1, <1>2, <1>3, <1>4, <1>5 DEF Rechecks

LEMMA AcknowledgedContinues ==
    ASSUME TypeOK, WatchesSound, NEW w \in Watch, Acknowledged(w)
    PROVE  Continue
<1>1. /\ watch[w] \in WatchTypes /\ Sound(watch[w])
      /\ watch[w].at = "ack" /\ watch[w].message = "accepted"
  BY WatchTyped DEF Acknowledged
<1>2. CASE watch[w].outcome.kind = "permission"
  <2> DEFINE y == [watch[w] EXCEPT !.at = "check", !.told = TRUE, !.outcome = NoOutcome]
  <2>1. watch' = [watch EXCEPT ![w] = y]
    BY <1>2 DEF Acknowledged, TypeOK
  <2>2. Continues(watch[w], y)
    BY <1>1, <1>2, GoesOn
  <2> HIDE DEF y
  <2> QED
    BY <2>1, <2>2, OneContinues
<1>3. CASE watch[w].outcome.kind # "permission"
  <2> DEFINE y == [watch[w] EXCEPT !.at = "remove", !.left = watch[w].records,
                                   !.acknowledged = watch[w].acknowledged \/ TRUE]
  <2>1. watch' = [watch EXCEPT ![w] = [watch[w] EXCEPT !.at = "remove", !.acknowledged = TRUE,
                                                      !.left = watch[w].records]]
    BY <1>3 DEF Acknowledged, TypeOK
  <2>2. y = [watch[w] EXCEPT !.at = "remove", !.acknowledged = TRUE,
                             !.left = watch[w].records]
    BY <1>1 DEF WatchTypes
  <2>3. Informed(watch[w])
    BY <1>1, <1>3 DEF Informed
  <2>4. Continues(watch[w], y)
    BY <1>1, <2>3, BeginsRemoval
  <2> HIDE DEF y
  <2> QED
    BY <2>1, <2>2, <2>4, OneContinues
<1> QED
  BY <1>2, <1>3

LEMMA PausesContinue ==
    ASSUME TypeOK, WatchesSound, NEW w \in Watch,
           Refused(w) \/ Resumes(w) \/ Aborts(w) \/ ObserveFails(w) \/ RemoveFails(w)
    PROVE  Continue
<1>1. watch[w] \in WatchTypes /\ Sound(watch[w])
  BY WatchTyped
<1>2. CASE Refused(w)
  <2>1. Moves(w, "pause") /\ watch[w].at = "ack" /\ watch[w].message = "refused"
    BY <1>2 DEF Refused
  <2> QED
    BY <2>1, MovesContinues
<1>3. CASE Resumes(w)
  <2>1. PICK to \in {"done", "check"} : Moves(w, to)
    BY <1>3 DEF Resumes
  <2>2. watch[w].at = "pause" /\ watch[w].message # "queued"
    BY <1>1, <1>3 DEF Resumes, Sound
  <2> QED
    BY <2>1, <2>2, MovesContinues
<1>4. CASE Aborts(w)
  <2>1. Moves(w, "done") /\ watch[w].at # "none"
    BY <1>4 DEF Aborts
  <2> QED
    BY <2>1, MovesContinues
<1>5. CASE ObserveFails(w)
  <2>1. Moves(w, "pause") /\ watch[w].at = "observe" /\ watch[w].message # "queued"
    BY <1>1, <1>5 DEF ObserveFails, Sound
  <2> QED
    BY <2>1, MovesContinues
<1>6. CASE RemoveFails(w)
  <2>1. PICK to \in {"done", "pause"} : Moves(w, to)
    BY <1>6 DEF RemoveFails
  <2>2. watch[w].at = "remove" /\ watch[w].message # "queued"
    BY <1>1, <1>6 DEF RemoveFails, Sound
  <2> QED
    BY <2>1, <2>2, MovesContinues
<1> QED
  BY <1>2, <1>3, <1>4, <1>5, <1>6

LEMMA ObservesContinues ==
    ASSUME TypeOK, WatchesSound, NEW w \in Watch, NEW kind \in {"finished", "permission"},
           Observes(w, kind)
    PROVE  Continue
<1>1. /\ watch[w] \in WatchTypes /\ Sound(watch[w]) /\ watch[w].at = "observe"
      /\ watch[w].message # "queued"
  BY WatchTyped DEF Observes, Sound
<1> DEFINE o == [kind |-> kind, attached |-> attached]
<1> DEFINE y == [watch[w] EXCEPT !.at = "decisions", !.strikes = 0, !.outcome = o]
<1>2. o \in Outcomes /\ 0 \in 0..Attempts /\ 0 < Attempts
  BY Numbers DEF Outcomes, TypeOK
<1>3. watch' = [watch EXCEPT ![w] = y]
  BY DEF Observes, TypeOK
<1> HIDE DEF o
<1>4. /\ y \in WatchTypes /\ y.at = "decisions" /\ y.records = watch[w].records
      /\ y.left = watch[w].left /\ y.member = watch[w].member
      /\ y.message = watch[w].message /\ y.acknowledged = watch[w].acknowledged
      /\ y.strikes = 0
  BY <1>1, <1>2 DEF WatchTypes
<1> HIDE DEF y
<1>5. Continues(watch[w], y)
  BY <1>1, <1>2, <1>4 DEF Progress, Continues, Sound, Ready, Informed
<1> QED
  BY <1>3, <1>5, OneContinues

LEMMA HostLostContinues ==
    ASSUME TypeOK, WatchesSound, NEW w \in Watch, NEW removed \in BOOLEAN, HostLost(w, removed)
    PROVE  Continue
<1>1. /\ watch[w] \in WatchTypes /\ Sound(watch[w]) /\ watch[w].at = "observe"
      /\ watch[w].message # "queued"
  BY WatchTyped DEF HostLost, Sound
<1>2. /\ watch[w].strikes \in Nat /\ watch[w].strikes <= Attempts /\ Attempts \in Nat
      /\ watch[w].outcome \in Outcomes
      /\ watch[w].strikes < Attempts \/ watch[w].outcome.kind = "unreachable"
  BY <1>1, Fields, Numbers DEF Sound
<1> DEFINE n == IF removed THEN watch[w].strikes ELSE watch[w].strikes + 1
<1> DEFINE final == removed \/ n = Attempts
<1> DEFINE lost == [kind |-> "unreachable", attached |-> FALSE]
<1> DEFINE o == IF final THEN lost ELSE watch[w].outcome
<1> DEFINE next == IF final THEN "decisions" ELSE "pause"
<1> DEFINE y == [watch[w] EXCEPT !.strikes = n, !.at = next, !.outcome = o]
<1>3. watch' = [watch EXCEPT ![w] = y]
  BY DEF HostLost, TypeOK
<1>4. lost \in Outcomes /\ lost.kind = "unreachable"
  BY DEF Outcomes
<1> HIDE DEF lost
<1>5. o \in Outcomes /\ next \in {"decisions", "pause"}
  BY <1>2, <1>4
<1>6. n \in 0..Attempts /\ (n < Attempts \/ o.kind = "unreachable")
  <2>1. watch[w].strikes < Attempts
    BY <1>1, <1>2 DEF Sound
  <2> QED
    BY <1>2, <1>4, <2>1
<1> HIDE DEF n, final, o, next
<1>7. /\ y \in WatchTypes /\ y.at = next /\ y.records = watch[w].records
      /\ y.left = watch[w].left /\ y.member = watch[w].member
      /\ y.message = watch[w].message /\ y.acknowledged = watch[w].acknowledged
      /\ y.strikes = n /\ y.outcome = o
  BY <1>1, <1>5, <1>6 DEF WatchTypes
<1> HIDE DEF y
<1>8. Continues(watch[w], y)
  BY <1>1, <1>5, <1>6, <1>7 DEF Progress, Continues, Sound, Ready, Informed
<1> QED
  BY <1>3, <1>8, OneContinues

-----------------------------------------------------------------------------
(***************************************************************************)
(* Records and watches                                                     *)
(***************************************************************************)
LEMMA Belongs ==
    ASSUME TypeOK, OwnRecords, NEW v \in Watch, NEW w \in Watch,
           NEW r \in watch[v].records, r \in watch[w].records
    PROVE  v = w
<1>1. v \in Registration \/ v = Recovered
  BY Numbers
<1>2. w \in Registration \/ w = Recovered
  BY Numbers
<1> QED
  BY <1>1, <1>2 DEF OwnRecords

LEMMA RecordKnown ==
    ASSUME SubscriptionsInv, NEW w \in Watch, NEW r \in watch[w].records
    PROVE  /\ r \in Registration /\ reg[r] \notin {"new", "asked", "stored"}
           /\ watch[w].at # "none"
<1>1. watch[w] \in WatchTypes /\ Sound(watch[w])
  BY WatchTyped DEF SubscriptionsInv
<1>2. r \in Registration /\ watch[w].at # "none"
  BY <1>1, Fields DEF Sound
<1>3. CASE w \in Registration
  <2>1. r = w
    BY <1>3 DEF SubscriptionsInv, OwnRecords
  <2>2. ~(w < w)
    BY <1>3, Numbers
  <2> QED
    BY <1>2, <1>3, <2>1, <2>2, Numbers DEF SubscriptionsInv, InOrder
<1>4. CASE w = Recovered
  <2>1. ~(r < r)
    BY <1>2, Numbers
  <2> QED
    BY <1>2, <1>4, <2>1 DEF SubscriptionsInv, InOrder
<1> QED
  BY <1>3, <1>4, Numbers

\* Steps happen to watches, that is after recovery, only
LEMMA AfterRecovery ==
    ASSUME SubscriptionsInv, NEW w \in Watch, watch[w].at # "none"
    PROVE  service \notin {"down", "recovering"}
BY DEF SubscriptionsInv, Fresh, NoWatch

-----------------------------------------------------------------------------
(***************************************************************************)
(* Steps that make and attach no registration                              *)
(***************************************************************************)
LEMMA StepKeeps ==
    ASSUME SubscriptionsInv, service \notin {"down", "recovering"},
           service' \in {"open", "closing", "stopping", "closed"},
           watch' \in [Watch -> WatchTypes],
           \A w \in Watch : Progress(watch[w], watch'[w]),
           reg' \in [Registration -> RegistrationStates], Onward,
           disk' \in SUBSET disk, dropped' \in SUBSET Registration,
           ahead' \in Nat, faults' \in Nat, active' \in BOOLEAN, attached' \in BOOLEAN,
           chain' \in Seq(Mutations), Lined(chain', reg),
           \A r \in Registration : reg'[r] \in {"asked", "stored"} => Has(chain', r),
           \A i \in 1..Len(chain') : chain'[i].op # "start",
           priors' = priors, heard' = heard, reports' = reports, lives' = lives
    PROVE  SubscriptionsInv'
<1>1. TypeOK /\ WatchesSound /\ OwnRecords /\ InOrder /\ Heard /\ Reported
  BY DEF SubscriptionsInv
<1>2. TypeOK'
  BY <1>1 DEF TypeOK
<1>3. WatchesSound' /\ OwnRecords' /\ Heard'
  BY <1>1, WatchesKept
<1>4. InOrder'
  BY <1>1, OrderKept DEF TypeOK
<1>5. Reported'
  BY <1>1, ReportedKept
<1>6. \A r \in Registration : reg[r] # "new" => reg'[r] # "new"
  BY DEF Onward
<1>7. Lined(chain', reg')
  BY <1>6, LinedOnward
<1>8. ChainShape'
  BY <1>7 DEF ChainShape
<1>9. Fresh'
  BY DEF Fresh
<1> QED
  BY <1>2, <1>3, <1>4, <1>5, <1>8, <1>9 DEF SubscriptionsInv

LEMMA SameOnward ==
    ASSUME reg' = reg
    PROVE  Onward
BY DEF Onward

\* The chain stands still and nothing is said to a caller
LEMMA WatchStepKeeps ==
    ASSUME SubscriptionsInv, service \notin {"down", "recovering"},
           service' \in {"open", "closing", "stopping", "closed"},
           watch' \in [Watch -> WatchTypes],
           \A w \in Watch : Progress(watch[w], watch'[w]),
           disk' \in SUBSET disk, dropped' \in SUBSET Registration,
           ahead' \in Nat, faults' \in Nat, active' \in BOOLEAN, attached' \in BOOLEAN,
           chain' = chain, reg' = reg, priors' = priors,
           heard' = heard, reports' = reports, lives' = lives
    PROVE  SubscriptionsInv'
<1>1. reg' \in [Registration -> RegistrationStates] /\ Onward
  BY SameOnward DEF SubscriptionsInv, TypeOK
<1>2. /\ chain' \in Seq(Mutations) /\ Lined(chain', reg)
      /\ \A r \in Registration : reg'[r] \in {"asked", "stored"} => Has(chain', r)
      /\ \A i \in 1..Len(chain') : chain'[i].op # "start"
  BY DEF SubscriptionsInv, TypeOK, ChainShape
<1> QED
  BY <1>1, <1>2, StepKeeps

LEMMA ServiceTyped ==
    ASSUME TypeOK, service \notin {"down", "recovering"}
    PROVE  service \in {"open", "closing", "stopping", "closed"}
BY DEF TypeOK

\* One watch goes on by itself
OwnSteps(w) ==
    \/ Begins(w) \/ Checks(w) \/ DecisionsPass(w) \/ DecisionsWait(w) \/ DecisionsMade(w)
    \/ Rechecks(w) \/ Acknowledged(w) \/ Refused(w) \/ Resumes(w) \/ Aborts(w)
    \/ ObserveFails(w) \/ RemoveFails(w) \/ DispatchFails(w)
    \/ \E kind \in {"finished", "permission"} : Observes(w, kind)
    \/ \E removed \in BOOLEAN : HostLost(w, removed)

LEMMA FailTyped ==
    ASSUME TypeOK, NEW kind, Fails(kind)
    PROVE  faults' \in Nat
BY DEF TypeOK, Fails

LEMMA DispatchFailsContinues ==
    ASSUME TypeOK, WatchesSound, NEW w \in Watch, DispatchFails(w)
    PROVE  Continue
<1>1. /\ watch[w] \in WatchTypes /\ Sound(watch[w]) /\ watch[w].message = "queued"
  BY WatchTyped DEF DispatchFails
<1> DEFINE y == Settled(watch[w], "refused")
<1>2. NoOutcome \in Outcomes /\ NoOutcome.kind = "none"
  BY DEF NoOutcome, Outcomes
<1>3. watch' = [watch EXCEPT ![w] = y]
  BY DEF DispatchFails, TypeOK
<1>4. /\ y \in WatchTypes /\ y.at = watch[w].at /\ y.records = watch[w].records
      /\ y.left = watch[w].left /\ y.member = watch[w].member
      /\ y.message = "refused" /\ y.acknowledged = watch[w].acknowledged
      /\ y.strikes = watch[w].strikes
      /\ y.outcome = IF watch[w].at = "done" THEN NoOutcome ELSE watch[w].outcome
  BY <1>1, <1>2 DEF WatchTypes, Settled
<1> HIDE DEF y
<1>5. Continues(watch[w], y)
  BY <1>1, <1>2, <1>4 DEF Progress, Continues, Sound, Ready, Informed
<1> QED
  BY <1>3, <1>5, OneContinues

LEMMA OwnStepContinues ==
    ASSUME TypeOK, WatchesSound, NEW w \in Watch, OwnSteps(w)
    PROVE  /\ Continue /\ watch[w].at # "none"
           /\ faults' \in Nat /\ UNCHANGED << service, chain, disk, ahead >>
           /\ UNCHANGED callers /\ UNCHANGED world /\ UNCHANGED history
<1>1. Continue
  BY BeginsContinues, ChecksContinues, DecisionsContinue, RechecksContinues,
     AcknowledgedContinues, PausesContinue, ObservesContinues, HostLostContinues,
     DispatchFailsContinues DEF OwnSteps
<1>2. watch[w].at # "none"
  BY WatchTyped DEF OwnSteps, Sound, Begins, Checks, DecisionsPass, DecisionsWait,
     DecisionsMade, Rechecks, Acknowledged, Refused, Resumes, Aborts, ObserveFails,
     RemoveFails, DispatchFails, Observes, HostLost
<1>3. faults' \in Nat
  BY FailTyped DEF OwnSteps, Begins, Checks, DecisionsPass, DecisionsWait,
     DecisionsMade, Rechecks, Acknowledged, Refused, Resumes, Aborts, ObserveFails,
     RemoveFails, DispatchFails, Observes, HostLost, TypeOK
<1>4. /\ UNCHANGED << service, chain, disk, ahead >>
      /\ UNCHANGED callers /\ UNCHANGED world /\ UNCHANGED history
  BY DEF OwnSteps, Begins, Checks, DecisionsPass, DecisionsWait,
     DecisionsMade, Rechecks, Acknowledged, Refused, Resumes, Aborts, ObserveFails,
     RemoveFails, DispatchFails, Observes, HostLost, store
<1> QED
  BY <1>1, <1>2, <1>3, <1>4

LEMMA OwnStepsKeep ==
    ASSUME SubscriptionsInv, NEW w \in Watch, OwnSteps(w)
    PROVE  SubscriptionsInv'
<1>1. TypeOK /\ WatchesSound
  BY DEF SubscriptionsInv
<1>2. /\ Continue /\ watch[w].at # "none" /\ faults' \in Nat
      /\ UNCHANGED << service, chain, disk, ahead >>
      /\ UNCHANGED callers /\ UNCHANGED world /\ UNCHANGED history
  BY <1>1, OwnStepContinues
<1>3. service \notin {"down", "recovering"}
  BY <1>2, AfterRecovery
<1>4. service' \in {"open", "closing", "stopping", "closed"}
  BY <1>1, <1>2, <1>3, ServiceTyped
<1>5. /\ watch' \in [Watch -> WatchTypes]
      /\ \A v \in Watch : Progress(watch[v], watch'[v])
  BY <1>2 DEF Continue, Continues
<1> QED
  BY <1>1, <1>2, <1>3, <1>4, <1>5, WatchStepKeeps DEF TypeOK, callers, world, history

\* One record is removed by the watch that told of it or dropped it
LEMMA RemovesOne ==
    ASSUME TypeOK, WatchesSound, NEW w \in Watch, Removes(w)
    PROVE  LET r == Least(watch[w].left)
           IN  /\ r \in watch[w].left /\ r \in watch[w].records /\ r \in Registration
               /\ disk' = disk \ {r}
               /\ watch' \in [Watch -> WatchTypes]
               /\ \A v \in Watch : Progress(watch[v], watch'[v])
               /\ \A v \in Watch : v # w => watch'[v] = watch[v]
               /\ watch'[w].member = watch[w].member /\ watch'[w].left = watch[w].left \ {r}
               /\ dropped' = IF watch[w].acknowledged THEN dropped ELSE dropped \cup {r}
<1> DEFINE r == Least(watch[w].left)
<1>1. /\ watch[w] \in WatchTypes /\ Sound(watch[w])
      /\ watch[w].at = "remove" /\ watch[w].left # {}
      /\ watch[w].left \subseteq Registration
  BY WatchTyped, Fields DEF Removes
<1>2. r \in watch[w].left /\ r \in watch[w].records /\ r \in Registration
  BY <1>1, LeastIsMember DEF Sound
<1>3. /\ disk' = disk \ {r}
      /\ dropped' = IF watch[w].acknowledged THEN dropped ELSE dropped \cup {r}
      /\ watch' = [watch EXCEPT ![w].left = @ \ {r}]
  BY DEF Removes
<1> HIDE DEF r
<1> DEFINE y == [watch[w] EXCEPT !.left = watch[w].left \ {r}]
<1>4. watch' = [watch EXCEPT ![w] = y]
  BY <1>3 DEF TypeOK
<1>5. /\ y \in WatchTypes /\ y.at = watch[w].at /\ y.records = watch[w].records
      /\ y.left = watch[w].left \ {r} /\ y.member = watch[w].member
      /\ y.message = watch[w].message /\ y.acknowledged = watch[w].acknowledged
      /\ y.outcome = watch[w].outcome /\ y.strikes = watch[w].strikes
  BY <1>1 DEF WatchTypes
<1> HIDE DEF y
<1>6. Progress(watch[w], y)
  BY <1>1, <1>5 DEF Progress, Sound, Ready, Informed
<1>7. /\ watch'[w] = y /\ \A v \in Watch : v # w => watch'[v] = watch[v]
      /\ watch' \in [Watch -> WatchTypes]
  BY <1>4, <1>5 DEF TypeOK
<1>8. \A v \in Watch : Progress(watch[v], watch'[v])
  <2>1. ASSUME NEW v \in Watch, v # w PROVE Progress(watch[v], watch'[v])
    BY <1>7, <2>1, WatchTyped, Stays DEF Continues
  <2> QED
    BY <1>6, <1>7, <2>1
<1> QED
  BY <1>2, <1>3, <1>5, <1>7, <1>8 DEF r

LEMMA RemovesKeeps ==
    ASSUME SubscriptionsInv, NEW w \in Watch, Removes(w)
    PROVE  SubscriptionsInv'
<1>1. TypeOK /\ WatchesSound
  BY DEF SubscriptionsInv
<1> DEFINE r == Least(watch[w].left)
<1>2. /\ r \in Registration /\ disk' = disk \ {r}
      /\ watch' \in [Watch -> WatchTypes]
      /\ \A v \in Watch : Progress(watch[v], watch'[v])
      /\ dropped' = IF watch[w].acknowledged THEN dropped ELSE dropped \cup {r}
  BY <1>1, RemovesOne
<1> HIDE DEF r
<1>3. disk' \in SUBSET disk /\ dropped' \in SUBSET Registration
  BY <1>1, <1>2 DEF TypeOK
<1>4. /\ service \notin {"down", "recovering"}
      /\ service' \in {"open", "closing", "stopping", "closed"}
  <2>1. service' = service /\ watch[w].at # "none"
    BY DEF Removes
  <2> QED
    BY <1>1, <2>1, AfterRecovery, ServiceTyped
<1> QED
  BY <1>1, <1>2, <1>3, <1>4, WatchStepKeeps DEF Removes, TypeOK, callers, world

LEMMA FinishesOne ==
    ASSUME TypeOK, WatchesSound, NEW w \in Watch, Finishes(w)
    PROVE  /\ watch' \in [Watch -> WatchTypes]
           /\ \A v \in Watch : Progress(watch[v], watch'[v])
           /\ \A v \in Watch : v # w => watch'[v] = watch[v]
           /\ watch'[w].at = "done"
<1> DEFINE ws == Cancelled(watch, {w}, FALSE)
<1> DEFINE x == ws[w]
<1>1. /\ watch[w] \in WatchTypes /\ watch[w].at = "remove"
  BY WatchTyped DEF Finishes
<1>2. /\ ws \in [Watch -> WatchTypes] /\ Progress(watch[w], x) /\ x.at = watch[w].at
      /\ \A v \in Watch : v # w => ws[v] = watch[v]
  <2>1. FALSE \in BOOLEAN /\ AllSound(watch)
    BY DEF AllSound, TypeOK, WatchesSound
  <2>2. StopsTo(watch, {w}, FALSE, ws)
    BY <2>1, StopsAll
  <2> HIDE DEF ws
  <2> QED
    BY <2>2 DEF StopsTo
<1>a. ws = Stopped(watch, {w})
  BY DEF Stopped
<1> HIDE DEF ws
<1>3. watch' = [ws EXCEPT ![w] = Returned(x)]
  BY <1>2, <1>a DEF Finishes
<1> HIDE DEF x
<1>4. x \in WatchTypes /\ Sound(x) /\ x.at # "none"
  BY <1>1, <1>2 DEF Progress
<1>5. Progress(x, Returned(x)) /\ Returned(x).at = "done"
  BY <1>4, Returns DEF Continues
<1>6. Progress(watch[w], Returned(x))
  BY <1>2, <1>5 DEF Progress
<1>7. /\ watch' \in [Watch -> WatchTypes] /\ watch'[w] = Returned(x)
      /\ \A v \in Watch : v # w => watch'[v] = watch[v]
  <2>1. Returned(x) \in WatchTypes
    BY <1>5 DEF Progress
  <2> QED
    BY <1>2, <1>3, <2>1
<1>8. \A v \in Watch : Progress(watch[v], watch'[v])
  <2>1. ASSUME NEW v \in Watch, v # w PROVE Progress(watch[v], watch'[v])
    BY <1>7, <2>1, WatchTyped, Stays DEF Continues
  <2> QED
    BY <1>6, <1>7, <2>1
<1> QED
  BY <1>5, <1>7, <1>8

LEMMA FinishesKeeps ==
    ASSUME SubscriptionsInv, NEW w \in Watch, Finishes(w)
    PROVE  SubscriptionsInv'
<1>1. TypeOK /\ WatchesSound
  BY DEF SubscriptionsInv
<1>2. /\ watch' \in [Watch -> WatchTypes]
      /\ \A v \in Watch : Progress(watch[v], watch'[v])
  BY <1>1, FinishesOne
<1>3. /\ service \notin {"down", "recovering"}
      /\ service' \in {"open", "closing", "stopping", "closed"}
  <2>1. service' = service /\ watch[w].at # "none"
    BY DEF Finishes
  <2> QED
    BY <1>1, <2>1, AfterRecovery, ServiceTyped
<1> QED
  BY <1>1, <1>2, <1>3, WatchStepKeeps DEF Finishes, TypeOK, callers, world, history, store

\* A message reaches the caller
LEMMA DispatchesOne ==
    ASSUME TypeOK, WatchesSound, NEW w \in Watch, Dispatches(w)
    PROVE  /\ watch' \in [Watch -> WatchTypes]
           /\ \A v \in Watch : v # w => watch'[v] = watch[v]
           /\ Sound(watch'[w]) /\ watch'[w].at = watch[w].at /\ watch[w].at # "none"
           /\ watch'[w].records = watch[w].records /\ watch'[w].member = watch[w].member
           /\ watch'[w].left = watch[w].left
           /\ Ready(watch[w])
           /\ watch[w].outcome.kind # "permission" => ~Ready(watch'[w])
           /\ watch[w].outcome.kind = "permission" => ~Informed(watch'[w])
<1>1. /\ watch[w] \in WatchTypes /\ Sound(watch[w]) /\ watch[w].message = "queued"
  BY WatchTyped DEF Dispatches
<1> DEFINE y == Settled(watch[w], "accepted")
<1>2. NoOutcome \in Outcomes /\ NoOutcome.kind = "none"
  BY DEF NoOutcome, Outcomes
<1>3. watch' = [watch EXCEPT ![w] = y]
  BY DEF Dispatches, TypeOK
<1>4. /\ y \in WatchTypes /\ y.at = watch[w].at /\ y.records = watch[w].records
      /\ y.left = watch[w].left /\ y.member = watch[w].member
      /\ y.message = "accepted" /\ y.acknowledged = watch[w].acknowledged
      /\ y.strikes = watch[w].strikes
      /\ y.outcome = IF watch[w].at = "done" THEN NoOutcome ELSE watch[w].outcome
  BY <1>1, <1>2 DEF WatchTypes, Settled
<1> HIDE DEF y
<1>5. /\ watch'[w] = y /\ \A v \in Watch : v # w => watch'[v] = watch[v]
      /\ watch' \in [Watch -> WatchTypes]
  BY <1>3, <1>4 DEF TypeOK
<1>6. Sound(y) /\ Ready(watch[w]) /\ watch[w].at # "none"
  BY <1>1, <1>2, <1>4 DEF Sound, Ready
<1>7. watch[w].outcome.kind # "permission" => ~Ready(y)
  BY <1>1, <1>4 DEF Sound, Ready, Informed
<1>8. watch[w].outcome.kind = "permission" => ~Informed(y)
  BY <1>1, <1>4 DEF Sound, Ready, Informed
<1> QED
  BY <1>4, <1>5, <1>6, <1>7, <1>8

LEMMA DispatchesKeeps ==
    ASSUME SubscriptionsInv, NEW w \in Watch, Dispatches(w)
    PROVE  SubscriptionsInv'
<1>1. TypeOK /\ WatchesSound /\ OwnRecords /\ InOrder /\ Heard /\ Reported
  BY DEF SubscriptionsInv
<1> DEFINE final == watch[w].outcome.kind # "permission"
<1>2. /\ watch' \in [Watch -> WatchTypes]
      /\ \A v \in Watch : v # w => watch'[v] = watch[v]
      /\ Sound(watch'[w]) /\ watch'[w].at = watch[w].at /\ watch[w].at # "none"
      /\ watch'[w].records = watch[w].records
      /\ Ready(watch[w])
      /\ final => ~Ready(watch'[w])
      /\ ~final => ~Informed(watch'[w])
  BY <1>1, DispatchesOne
<1>3. /\ heard' = IF final THEN heard \cup watch[w].records ELSE heard
      /\ reports' = [r \in Registration |->
            IF final /\ r \in watch[w].records THEN reports[r] + 1 ELSE reports[r]]
      /\ UNCHANGED << service, disk, chain, ahead, reg, priors, active, attached, dropped,
                      faults, lives >>
  BY DEF Dispatches, store, callers, world
<1> HIDE DEF final
<1>4. service \notin {"down", "recovering"}
  BY <1>2, AfterRecovery
<1>5. watch[w].records \subseteq Registration
  BY <1>1, WatchTyped, Fields
<1>6. /\ reports \in [Registration -> Nat] /\ lives \in Nat
      /\ \A r \in watch[w].records : reports[r] < lives
  BY <1>1, <1>2 DEF TypeOK, Reported
<1>7. TypeOK'
  <2>1. reports' \in [Registration -> Nat] /\ heard' \subseteq Registration
    BY <1>1, <1>3, <1>5, <1>6 DEF TypeOK
  <2> QED
    BY <1>1, <1>2, <1>3, <2>1 DEF TypeOK
<1>8. \A v \in Watch : /\ Sound(watch'[v]) /\ watch'[v].records = watch[v].records
                       /\ watch'[v].at = watch[v].at
  BY <1>1, <1>2, WatchTyped
<1>9. WatchesSound' /\ OwnRecords'
  <2>1. watch[Recovered].records \subseteq Watch
    BY <1>1, WatchTyped, Fields, Numbers
  <2> QED
    BY <1>1, <1>8, <2>1, Numbers DEF WatchesSound, OwnRecords
<1>10. InOrder'
  BY <1>1, <1>3, <1>8, Numbers DEF InOrder
<1>11. Heard'
  BY <1>1, <1>2, <1>3 DEF Heard
<1>12. Reported'
  <2>1. \A r \in Registration : reports'[r] <= lives'
    BY <1>1, <1>3, <1>6 DEF Reported
  <2>2. \A r \in Registration : reg'[r] \in {"new", "asked", "stored"} => reports'[r] = 0
    BY <1>1, <1>3, RecordKnown DEF Reported
  <2>3. ASSUME NEW v \in Watch, Ready(watch'[v]), NEW r \in watch'[v].records
        PROVE  reports'[r] < lives'
    <3>1. r \in watch[v].records /\ r \in Registration
      BY <1>1, <1>8, <2>3, WatchTyped, Fields
    <3>2. CASE final /\ r \in watch[w].records
      <4>1. v = w
        BY <1>1, <3>1, <3>2, Belongs
      <4> QED
        BY <1>2, <2>3, <3>2, <4>1
    <3>3. CASE ~(final /\ r \in watch[w].records)
      <4>1. reports'[r] = reports[r] /\ lives' = lives
        BY <1>3, <3>1, <3>3
      <4>2. Ready(watch[v])
        BY <1>2, <2>3
      <4> QED
        BY <1>1, <3>1, <4>1, <4>2 DEF Reported
    <3> QED
      BY <3>2, <3>3
  <2> QED
    BY <1>1, <1>3, <1>4, <2>1, <2>2, <2>3 DEF Reported
<1>13. ChainShape' /\ Fresh'
  BY <1>3, <1>4 DEF SubscriptionsInv, ChainShape, Fresh
<1> QED
  BY <1>7, <1>9, <1>10, <1>11, <1>12, <1>13 DEF SubscriptionsInv

-----------------------------------------------------------------------------
(***************************************************************************)
(* Attaching and accepting                                                 *)
(***************************************************************************)
LEMMA Transitive ==
    ASSUME NEW x, NEW y, NEW z, Progress(x, y), Progress(y, z)
    PROVE  Progress(x, z)
BY DEF Progress

\* A watch is attached in the place of another, or where none was
AttachesTo(ws, w, records, pending, new) ==
    /\ new \in [Watch -> WatchTypes]
    /\ \A v \in Watch : v # w => new[v] = ws[v]
    /\ Sound(new[w]) /\ ~Informed(new[w])
    /\ new[w].at = "undecided" /\ new[w].records = records /\ new[w].member
    /\ new[w].pending = pending

LEMMA Attaches ==
    ASSUME NEW ws \in [Watch -> WatchTypes], NEW w \in Watch,
           NEW records \in SUBSET Registration, NEW pending \in BOOLEAN
    PROVE  AttachesTo(ws, w, records, pending, Attach(ws, w, records, pending))
<1> DEFINE d == IF pending THEN "none" ELSE "yes"
<1> DEFINE y == [NoWatch EXCEPT !.at = "undecided", !.records = records,
                     !.pending = pending, !.member = TRUE, !.decision = d]
<1>a. d \in {"none", "yes", "no"}
  OBVIOUS
<1>b. NoWatch \in WatchTypes
  BY NoWatchTyped
<1>2. Attach(ws, w, records, pending) = [ws EXCEPT ![w] = y]
  BY DEF Attach
<1> HIDE DEF d
<1>c. y \in WatchTypes
  BY <1>a, <1>b DEF WatchTypes
<1>1. /\ y \in WatchTypes /\ y.at = "undecided" /\ y.records = records /\ y.member = TRUE
      /\ y.pending = pending /\ y.left = {} /\ y.message = "none" /\ y.acknowledged = FALSE
      /\ y.strikes = 0
  BY <1>c DEF NoWatch
<1> HIDE DEF y
<1>3. Sound(y) /\ ~Informed(y)
  BY <1>1, Numbers DEF Sound, Informed
<1> DEFINE new == [ws EXCEPT ![w] = y]
<1>4. new \in [Watch -> WatchTypes] /\ new[w] = y /\ \A v \in Watch : v # w => new[v] = ws[v]
  BY <1>1
<1> HIDE DEF new
<1>5. AttachesTo(ws, w, records, pending, new)
  BY <1>1, <1>3, <1>4 DEF AttachesTo
<1> QED
  BY <1>2, <1>5 DEF new

\* Fields that no invariant is about
LEMMA Accepts ==
    ASSUME NEW x \in WatchTypes, Sound(x)
    PROVE  LET y == [x EXCEPT !.pending = FALSE]
           IN  Progress(x, y) /\ y.member = x.member /\ y.at = x.at /\ y.left = x.left
<1> DEFINE y == [x EXCEPT !.pending = FALSE]
<1>1. /\ y \in WatchTypes /\ y.at = x.at /\ y.records = x.records /\ y.left = x.left
      /\ y.member = x.member /\ y.message = x.message
      /\ y.acknowledged = x.acknowledged /\ y.outcome = x.outcome /\ y.strikes = x.strikes
  BY DEF WatchTypes
<1> HIDE DEF y
<1>2. Progress(x, y)
  BY <1>1 DEF Progress, Sound, Ready, Informed
<1> QED
  BY <1>1, <1>2 DEF y

LEMMA Decides ==
    ASSUME NEW x \in WatchTypes, Sound(x), NEW d \in {"none", "yes", "no"}
    PROVE  LET y == [x EXCEPT !.decision = d]
           IN  Progress(x, y) /\ y.member = x.member /\ y.at = x.at /\ y.left = x.left
<1> DEFINE y == [x EXCEPT !.decision = d]
<1>1. /\ y \in WatchTypes /\ y.at = x.at /\ y.records = x.records /\ y.left = x.left
      /\ y.member = x.member /\ y.message = x.message
      /\ y.acknowledged = x.acknowledged /\ y.outcome = x.outcome /\ y.strikes = x.strikes
  BY DEF WatchTypes
<1> HIDE DEF y
<1>2. Progress(x, y)
  BY <1>1 DEF Progress, Sound, Ready, Informed
<1> QED
  BY <1>1, <1>2 DEF y

\* A registration is accepted, and the watches of prior are stopped
AcceptsTo(ws, prior, new) ==
    /\ new \in [Watch -> WatchTypes]
    /\ \A w \in Watch : Progress(ws[w], new[w])
    /\ \A w \in Watch : new[w].at = ws[w].at /\ new[w].left = ws[w].left
    /\ \A w \in Watch \ prior : new[w].member = ws[w].member

LEMMA AcceptsWatches ==
    ASSUME NEW ws, AllSound(ws), NEW r \in Registration, NEW prior
    PROVE  AcceptsTo(ws, prior, Accepting(ws, r, prior))
<1>1. CASE ~ws[r].pending \/ Closed
  <2>1. Accepting(ws, r, prior) = ws
    BY <1>1 DEF Accepting
  <2>2. \A w \in Watch : Progress(ws[w], ws[w])
    BY Stays DEF Continues, AllSound
  <2> QED
    BY <2>1, <2>2 DEF AcceptsTo, AllSound
<1>2. CASE ws[r].pending /\ ~Closed
  <2> DEFINE a == [ws[r] EXCEPT !.pending = FALSE]
  <2> DEFINE wa == [ws EXCEPT ![r] = a]
  <2> DEFINE wb == Cancelled(wa, prior, FALSE)
  <2> DEFINE d == Decided(wb[r].decision, "yes")
  <2> DEFINE c == [wb[r] EXCEPT !.decision = d]
  <2> DEFINE wc == [wb EXCEPT ![r] = c]
  <2>1. /\ r \in Watch /\ ws[r] \in WatchTypes /\ ws[r].decision \in {"none", "yes", "no"}
        /\ Sound(ws[r]) /\ ws \in [Watch -> WatchTypes]
    BY Numbers DEF WatchTypes, AllSound
  <2>2. /\ Progress(ws[r], a) /\ a.member = ws[r].member /\ a.at = ws[r].at
        /\ a.left = ws[r].left
    BY <2>1, Accepts
  <2>6. wa = [ws EXCEPT ![r].pending = FALSE]
    BY <2>1
  <2> HIDE DEF a
  <2>4. a \in WatchTypes /\ Sound(a)
    BY <2>2 DEF Progress
  <2>5. /\ wa \in [Watch -> WatchTypes] /\ wa[r] = a
        /\ \A w \in Watch : w # r => wa[w] = ws[w]
    BY <2>1, <2>4
  <2> HIDE DEF wa
  <2>7. /\ \A w \in Watch : Sound(wa[w])
        /\ \A w \in Watch : /\ Progress(ws[w], wa[w]) /\ wa[w].at = ws[w].at
                            /\ wa[w].left = ws[w].left /\ wa[w].member = ws[w].member
    <3>1. ASSUME NEW w \in Watch
          PROVE  /\ Sound(wa[w])
                 /\ Progress(ws[w], wa[w]) /\ wa[w].at = ws[w].at
                 /\ wa[w].left = ws[w].left /\ wa[w].member = ws[w].member
      <4>1. CASE w = r
        BY <2>2, <2>4, <2>5, <4>1
      <4>2. CASE w # r
        <5>1. ws[w] \in WatchTypes /\ Sound(ws[w])
          BY DEF AllSound
        <5>2. Progress(ws[w], ws[w])
          BY <5>1, Stays DEF Continues
        <5>3. wa[w] = ws[w]
          BY <2>5, <4>2
        <5> QED
          BY <5>1, <5>2, <5>3
      <4> QED
        BY <4>1, <4>2
    <3> QED
      BY <3>1
  <2>8. /\ wb \in [Watch -> WatchTypes]
        /\ \A w \in Watch : Progress(wa[w], wb[w])
        /\ \A w \in Watch \ prior : wb[w] = wa[w]
        /\ \A w \in Watch : wb[w].at = wa[w].at /\ wb[w].left = wa[w].left
    <3>1. FALSE \in BOOLEAN /\ AllSound(wa)
      BY <2>5, <2>7 DEF AllSound
    <3>2. StopsTo(wa, prior, FALSE, wb)
      BY <3>1, StopsAll
    <3> HIDE DEF wb
    <3> QED
      BY <3>2 DEF StopsTo
  <2>9. wb = Stopped([ws EXCEPT ![r].pending = FALSE], prior)
    BY <2>6 DEF Stopped
  <2> HIDE DEF wb
  <2>10. wb[r] \in WatchTypes /\ Sound(wb[r]) /\ d \in {"none", "yes", "no"}
         /\ wb[r].pending \in BOOLEAN
    <3>1. wb[r] \in WatchTypes /\ Sound(wb[r])
      BY <2>1, <2>8 DEF Progress
    <3> QED
      BY <3>1 DEF Decided, WatchTypes
  <2> HIDE DEF d
  <2>12. /\ Progress(wb[r], c) /\ c.member = wb[r].member /\ c.at = wb[r].at
         /\ c.left = wb[r].left
    BY <2>10, Decides
  <2> HIDE DEF c
  <2>13. /\ wc \in [Watch -> WatchTypes] /\ wc[r] = c
         /\ \A w \in Watch : w # r => wc[w] = wb[w]
    <3>1. c \in WatchTypes
      BY <2>12 DEF Progress
    <3> QED
      BY <2>1, <2>8, <3>1
  <2>14. wc = [wb EXCEPT ![r].decision = Decided(@, "yes")]
    BY <2>1, <2>8 DEF d, c
  <2>15. Accepting(ws, r, prior) = wc
    BY <1>2, <2>9, <2>14 DEF Accepting
  <2> HIDE DEF wc
  <2>16. ASSUME NEW w \in Watch
         PROVE  /\ Progress(ws[w], wc[w]) /\ wc[w].at = ws[w].at /\ wc[w].left = ws[w].left
                /\ w \notin prior => wc[w].member = ws[w].member
    <3>1. Progress(wb[w], wc[w]) /\ wc[w].at = wb[w].at /\ wc[w].left = wb[w].left
          /\ wc[w].member = wb[w].member
      <4>1. CASE w = r
        BY <2>12, <2>13, <4>1
      <4>2. CASE w # r
        <5>1. wb[w] \in WatchTypes /\ Sound(wb[w])
          BY <2>8 DEF Progress
        <5>2. Progress(wb[w], wb[w])
          BY <5>1, Stays DEF Continues
        <5> QED
          BY <2>13, <4>2, <5>2
      <4> QED
        BY <4>1, <4>2
    <3>2. Progress(ws[w], wc[w])
      <4>1. Progress(ws[w], wb[w])
        BY <2>7, <2>8, Transitive
      <4> QED
        BY <3>1, <4>1, Transitive
    <3> QED
      BY <2>7, <2>8, <3>1, <3>2
  <2> QED
    BY <2>13, <2>15, <2>16 DEF AcceptsTo
<1> QED
  BY <1>1, <1>2

-----------------------------------------------------------------------------
(***************************************************************************)
(* The steps of the chain                                                  *)
(***************************************************************************)
LEMMA HeadFacts ==
    ASSUME SubscriptionsInv, NEW op, HeadIs(op)
    PROVE  /\ chain # << >> /\ 1 \in 1..Len(chain) /\ Head(chain) = chain[1]
           /\ chain[1] \in Mutations /\ chain[1].op = op /\ service # "down"
           /\ chain[1].left \subseteq Registration
           /\ op # "start" => /\ service \notin {"down", "recovering"}
                              /\ chain[1].reg \in Registration /\ reg[chain[1].reg] # "new"
<1>1. /\ chain # << >> /\ 1 \in 1..Len(chain) /\ Head(chain) = chain[1]
      /\ chain[1] \in Mutations /\ chain[1].op = op /\ service # "down"
      /\ chain[1].left \subseteq Registration
  BY ChainTyped DEF SubscriptionsInv, HeadIs, Up
<1>2. op # "start" => service # "recovering"
  BY <1>1 DEF SubscriptionsInv, Fresh
<1>3. op # "start" => chain[1].reg \in Registration /\ reg[chain[1].reg] # "new"
  BY <1>1 DEF SubscriptionsInv, ChainShape, Lined
<1> QED
  BY <1>1, <1>2, <1>3

\* The head of the chain is done with
LEMMA TailFacts ==
    ASSUME SubscriptionsInv, service \notin {"down", "recovering"}, chain # << >>,
           chain' = Tail(chain), Passed
    PROVE  /\ chain' \in Seq(Mutations) /\ Lined(chain', reg) /\ ahead' \in Nat
           /\ \A i \in 1..Len(chain') : /\ i + 1 \in 1..Len(chain) /\ chain'[i] = chain[i + 1]
                                        /\ chain'[i].op # "start"
           /\ \A r \in Registration :
                 Has(chain, r) /\ ~(chain[1].op = "register" /\ chain[1].reg = r)
                    => Has(chain', r)
<1>1. chain \in Seq(Mutations) /\ Lined(chain, reg) /\ ahead \in Nat
  BY DEF SubscriptionsInv, TypeOK, ChainShape
<1>2. ahead' \in Nat
  BY <1>1 DEF Passed
<1> QED
  BY <1>1, <1>2, TailLined

\* The chain loses a record of its head
LEMMA RecordRemovedKeeps ==
    ASSUME SubscriptionsInv, NEW op, op # "start", HeadIs(op), HeadRemoves,
           UNCHANGED << service, watch, faults >>,
           UNCHANGED callers, UNCHANGED world, UNCHANGED history
    PROVE  SubscriptionsInv'
<1>1. TypeOK /\ WatchesSound /\ ChainShape
  BY DEF SubscriptionsInv
<1>2. /\ chain # << >> /\ service \notin {"down", "recovering"}
  BY HeadFacts
<1>3. /\ chain' \in Seq(Mutations) /\ Lined(chain', reg) /\ Len(chain') = Len(chain)
      /\ \A i \in 1..Len(chain) : chain'[i].op = chain[i].op
      /\ \A r \in Registration : Has(chain, r) => Has(chain', r)
      /\ disk' = disk \ {Least(chain[1].left)} /\ ahead' = ahead
  BY <1>1, <1>2, HeadLined
<1>4. \A w \in Watch : Progress(watch[w], watch'[w])
  BY <1>1, WatchTyped, Stays DEF Continues
<1>5. /\ \A i \in 1..Len(chain') : chain'[i].op # "start"
      /\ \A r \in Registration : reg'[r] \in {"asked", "stored"} => Has(chain', r)
  BY <1>1, <1>2, <1>3 DEF ChainShape, callers
<1>6. reg' \in [Registration -> RegistrationStates] /\ Onward
  BY <1>1, SameOnward DEF TypeOK, callers
<1>7. service' \in {"open", "closing", "stopping", "closed"}
  BY <1>1, <1>2, ServiceTyped
<1>8. disk' \in SUBSET disk /\ ahead' \in Nat
  BY <1>1, <1>3 DEF TypeOK
<1> QED
  BY <1>1, <1>2, <1>3, <1>4, <1>5, <1>6, <1>7, <1>8, StepKeeps
     DEF TypeOK, callers, world, history

\* The chain is done with its head, and some watches are stopped
LEMMA EndKeeps ==
    ASSUME SubscriptionsInv, service \notin {"down", "recovering"}, chain # << >>,
           chain' = Tail(chain), Passed, faults' \in Nat,
           watch' \in [Watch -> WatchTypes],
           \A w \in Watch : Progress(watch[w], watch'[w]),
           reg' \in [Registration -> RegistrationStates], Onward,
           chain[1].op = "register" => reg'[chain[1].reg] \notin {"asked", "stored"},
           UNCHANGED << service, disk, priors >>, UNCHANGED world, UNCHANGED history
    PROVE  SubscriptionsInv'
<1>1. TypeOK /\ ChainShape
  BY DEF SubscriptionsInv
<1>2. /\ chain' \in Seq(Mutations) /\ Lined(chain', reg) /\ ahead' \in Nat
      /\ \A i \in 1..Len(chain') : chain'[i].op # "start"
      /\ \A r \in Registration :
            Has(chain, r) /\ ~(chain[1].op = "register" /\ chain[1].reg = r) => Has(chain', r)
  BY TailFacts
<1>3. \A r \in Registration : reg'[r] \in {"asked", "stored"} => Has(chain', r)
  <2> SUFFICES ASSUME NEW r \in Registration, reg'[r] \in {"asked", "stored"}
               PROVE  Has(chain', r)
    OBVIOUS
  <2>1. Has(chain, r)
    BY <1>1 DEF Onward, ChainShape
  <2> QED
    BY <1>2, <2>1
<1>4. service' \in {"open", "closing", "stopping", "closed"}
  BY <1>1, ServiceTyped
<1> QED
  BY <1>1, <1>2, <1>3, <1>4, StepKeeps DEF TypeOK, world, history

LEMMA OneOnward ==
    ASSUME TypeOK, NEW r \in Registration, reg[r] # "new",
           NEW state \in {"refused", "rejecting", "rejected", "accepted", "created", "orphan"},
           reg' = [reg EXCEPT ![r] = state]
    PROVE  /\ reg' \in [Registration -> RegistrationStates] /\ Onward /\ reg'[r] = state
           /\ \A q \in Registration : q # r => reg'[q] = reg[q]
BY DEF TypeOK, Onward, RegistrationStates

LEMMA SameProgress ==
    ASSUME TypeOK, WatchesSound, watch' = watch
    PROVE  /\ watch' \in [Watch -> WatchTypes]
           /\ \A w \in Watch : Progress(watch[w], watch'[w])
BY WatchTyped, Stays DEF Continues, TypeOK

LEMMA RegisterThrowsKeeps ==
    ASSUME SubscriptionsInv, RegisterThrows
    PROVE  SubscriptionsInv'
<1>1. TypeOK /\ WatchesSound
  BY DEF SubscriptionsInv
<1> DEFINE r == Head(chain).reg
<1>2. HeadIs("register")
  BY DEF RegisterThrows
<1>3. /\ chain # << >> /\ Head(chain) = chain[1] /\ r \in Registration /\ reg[r] # "new"
      /\ service \notin {"down", "recovering"} /\ chain[1].reg = r
  BY <1>2, HeadFacts
<1>4. /\ reg' = [reg EXCEPT ![r] = "refused"] /\ chain' = Tail(chain) /\ Passed
      /\ UNCHANGED << service, disk, priors, watch >>
      /\ UNCHANGED world /\ UNCHANGED history
  BY DEF RegisterThrows
<1>5. faults' \in Nat
  BY <1>1, FailTyped DEF RegisterThrows, TypeOK
<1> HIDE DEF r
<1>6. reg' \in [Registration -> RegistrationStates] /\ Onward /\ reg'[r] = "refused"
  BY <1>1, <1>3, <1>4, OneOnward
<1>7. /\ watch' \in [Watch -> WatchTypes]
      /\ \A w \in Watch : Progress(watch[w], watch'[w])
  BY <1>1, <1>4, SameProgress
<1> QED
  BY <1>3, <1>4, <1>5, <1>6, <1>7, EndKeeps

LEMMA StoppedProgress ==
    ASSUME TypeOK, WatchesSound, NEW S, NEW keep \in BOOLEAN,
           watch' = Cancelled(watch, S, keep)
    PROVE  StopsTo(watch, S, keep, watch')
BY StopsAll DEF AllSound, TypeOK, WatchesSound

LEMMA RejectEndsKeeps ==
    ASSUME SubscriptionsInv, RejectEnds
    PROVE  SubscriptionsInv'
<1>1. TypeOK /\ WatchesSound
  BY DEF SubscriptionsInv
<1> DEFINE r == Head(chain).reg
<1>2. HeadIs("reject") /\ "reject" # "start"
  BY DEF RejectEnds
<1>3. /\ chain # << >> /\ Head(chain) = chain[1] /\ r \in Registration /\ reg[r] # "new"
      /\ service \notin {"down", "recovering"} /\ chain[1].op = "reject"
  BY <1>2, HeadFacts
<1>4. /\ reg' = [reg EXCEPT ![r] = "rejected"] /\ chain' = Tail(chain) /\ Passed
      /\ UNCHANGED << service, disk, priors >>
      /\ UNCHANGED world /\ UNCHANGED history
      /\ watch' = Cancelled(watch, {r}, FALSE) \/ watch' = watch
  BY DEF RejectEnds, Stopped
<1>5. faults' \in Nat
  BY <1>1, FailTyped DEF RejectEnds, TypeOK
<1> HIDE DEF r
<1>6. reg' \in [Registration -> RegistrationStates] /\ Onward
  BY <1>1, <1>3, <1>4, OneOnward
<1>7. /\ watch' \in [Watch -> WatchTypes]
      /\ \A w \in Watch : Progress(watch[w], watch'[w])
  <2>1. CASE watch' = Cancelled(watch, {r}, FALSE)
    BY <1>1, <2>1, StoppedProgress DEF StopsTo
  <2> QED
    BY <1>1, <1>4, <2>1, SameProgress
<1> QED
  BY <1>3, <1>4, <1>5, <1>6, <1>7, EndKeeps

LEMMA SupersedeEndsKeeps ==
    ASSUME SubscriptionsInv, SupersedeEnds
    PROVE  SubscriptionsInv'
<1>1. TypeOK /\ WatchesSound
  BY DEF SubscriptionsInv
<1>2. HeadIs("supersede") /\ "supersede" # "start"
  BY DEF SupersedeEnds
<1>3. chain # << >> /\ service \notin {"down", "recovering"} /\ chain[1].op = "supersede"
  BY <1>2, HeadFacts
<1>4. /\ chain' = Tail(chain) /\ Passed /\ UNCHANGED << service, disk, watch >>
      /\ reg' = reg /\ priors' = priors /\ UNCHANGED world /\ UNCHANGED history
  BY DEF SupersedeEnds, callers
<1>5. faults' \in Nat
  BY <1>1, FailTyped DEF SupersedeEnds, TypeOK
<1>6. reg' \in [Registration -> RegistrationStates] /\ Onward
  BY <1>1, <1>4, SameOnward DEF TypeOK
<1>7. /\ watch' \in [Watch -> WatchTypes]
      /\ \A w \in Watch : Progress(watch[w], watch'[w])
  BY <1>1, <1>4, SameProgress
<1> QED
  BY <1>3, <1>4, <1>5, <1>6, <1>7, EndKeeps

\* A registration is made, or its record stored
LEMMA MadeKeeps ==
    ASSUME SubscriptionsInv, service \notin {"down", "recovering"},
           NEW r \in Registration, NEW state \in {"asked", "stored"},
           reg[r] \in {"new", "asked"}, reg' = [reg EXCEPT ![r] = state],
           state = "asked" => reg[r] = "new" /\ \A q \in 1..(r - 1) : reg[q] # "new",
           state = "stored" => reg[r] = "asked",
           disk' = disk \/ (state = "stored" /\ disk' = disk \cup {r}),
           chain' \in Seq(Mutations), Lined(chain', reg'),
           \A q \in Registration : q = r \/ Has(chain, q) => Has(chain', q),
           \A i \in 1..Len(chain') : chain'[i].op # "start",
           UNCHANGED << service, ahead, priors, watch, faults >>,
           UNCHANGED world, UNCHANGED history
    PROVE  SubscriptionsInv'
<1>1. TypeOK /\ InOrder /\ Reported /\ ChainShape
  BY DEF SubscriptionsInv
<1>2. /\ reg'[r] = state /\ \A q \in Registration : q # r => reg'[q] = reg[q]
      /\ reg' \in [Registration -> RegistrationStates]
  BY <1>1 DEF TypeOK, RegistrationStates
<1>3. TypeOK'
  BY <1>1, <1>2 DEF TypeOK, world, history
<1>4. \A q \in Registration :
        /\ reg'[q] \in {"new", "asked", "stored"} => reg[q] \in {"new", "asked", "stored"}
        /\ reg'[q] = "candidate" => reg[q] = "candidate"
        /\ reg'[q] = "new" => q # r /\ reg[q] = "new"
        /\ reg'[q] = "asked" => reg[q] = "asked" \/ (q = r /\ reg[q] = "new")
  BY <1>2
<1>5. InOrder'
  <2>1. ASSUME NEW q \in Registration, NEW p \in Registration, q < p, reg'[q] = "new"
        PROVE  reg'[p] = "new"
    <3>1. reg[q] = "new" /\ reg[p] = "new"
      BY <1>1, <1>4, <2>1 DEF InOrder
    <3>2. p # r
      <4>1. SUFFICES ASSUME p = r PROVE FALSE
        OBVIOUS
      <4>2. state = "asked"
        BY <3>1, <4>1
      <4>3. q \in 1..(r - 1)
        BY <2>1, <4>1, Numbers
      <4> QED
        BY <3>1, <4>2, <4>3
    <3> QED
      BY <1>2, <3>1, <3>2
  <2>2. \A q \in disk' : reg'[q] \notin {"new", "asked"}
    BY <1>1, <1>2, <1>4 DEF InOrder, TypeOK
  <2>3. /\ \A w \in Watch, q \in Registration :
              watch'[w].at # "none" /\ reg'[q] \in {"new", "asked", "stored"} => w < q
        /\ \A p \in watch'[Recovered].records, q \in Registration :
              reg'[q] \in {"new", "asked", "stored", "candidate"} => p < q
        /\ \A q \in Registration : \A w \in priors'[q] : w < q
    BY <1>1, <1>4 DEF InOrder
  <2> QED
    BY <2>1, <2>2, <2>3 DEF InOrder
<1>6. ChainShape'
  <2>1. \A q \in Registration : reg'[q] \in {"asked", "stored"} => q = r \/ Has(chain, q)
    BY <1>1, <1>2 DEF ChainShape
  <2> QED
    BY <2>1 DEF ChainShape
<1>7. Reported'
  BY <1>1, <1>4 DEF Reported, world, history
<1>8. Fresh' /\ WatchesSound' /\ OwnRecords' /\ Heard'
  BY DEF SubscriptionsInv, Fresh, WatchesSound, OwnRecords, Heard, history
<1> QED
  BY <1>3, <1>5, <1>6, <1>7, <1>8 DEF SubscriptionsInv

LEMMA RegisterKeeps ==
    ASSUME SubscriptionsInv, NEW r \in Registration, Register(r)
    PROVE  SubscriptionsInv'
<1>1. TypeOK /\ InOrder /\ ChainShape /\ chain \in Seq(Mutations)
  BY DEF SubscriptionsInv, TypeOK
<1>2. service \notin {"down", "recovering"}
  BY DEF Register, Closed
<1> DEFINE e == [op |-> "register", reg |-> r, left |-> {}]
<1>3. e \in Mutations /\ e.op = "register" /\ e.reg = r
  BY Numbers DEF Mutations
<1>4. chain' = Append(chain, e)
  BY DEF Register, Appended
<1> HIDE DEF e
<1>5. /\ reg[r] = "new" /\ \A q \in 1..(r - 1) : reg[q] # "new"
      /\ reg' = [reg EXCEPT ![r] = "asked"]
      /\ UNCHANGED << service, disk, ahead, priors, watch, faults >>
      /\ UNCHANGED world /\ UNCHANGED history
  BY DEF Register
<1>6. \A q \in Registration : reg[q] # "new" => reg'[q] # "new"
  BY <1>1, <1>5 DEF TypeOK
<1>7. Lined(chain, reg')
  BY <1>1, <1>6, LinedOnward DEF ChainShape
<1>8. ASSUME NEW i \in 1..Len(chain), chain[i].op = "register"
      PROVE  chain[i].reg < r
  <2>1. chain[i].reg \in Registration /\ reg[chain[i].reg] # "new"
    BY <1>1, <1>8 DEF ChainShape, Lined
  <2>2. ~(r < chain[i].reg) /\ chain[i].reg # r
    BY <1>1, <1>5, <2>1 DEF InOrder
  <2>3. chain[i].reg \in Nat /\ r \in Nat
    BY <2>1, Numbers
  <2> QED
    BY <2>2, <2>3
<1>9. reg'[r] # "new"
  BY <1>1, <1>5 DEF TypeOK
<1>10. /\ chain' \in Seq(Mutations) /\ Lined(chain', reg') /\ Len(chain') = Len(chain) + 1
       /\ \A i \in 1..Len(chain) : chain'[i] = chain[i]
       /\ chain'[Len(chain) + 1] = e
       /\ \A q \in Registration : Has(chain, q) => Has(chain', q)
  BY <1>1, <1>3, <1>4, <1>7, <1>8, <1>9, AppendLined
<1>11. Len(chain) \in Nat
  BY <1>1
<1>12. Has(chain', r)
  BY <1>3, <1>10, <1>11 DEF Has
<1>13. \A i \in 1..Len(chain') : chain'[i].op # "start"
  <2>1. \A i \in 1..Len(chain') : i \in 1..Len(chain) \/ i = Len(chain) + 1
    BY <1>10, <1>11
  <2> QED
    BY <1>1, <1>2, <1>3, <1>10, <2>1 DEF ChainShape
<1> QED
  BY <1>2, <1>5, <1>10, <1>12, <1>13, MadeKeeps

LEMMA RegisterStoresKeeps ==
    ASSUME SubscriptionsInv, RegisterStores
    PROVE  SubscriptionsInv'
<1>1. TypeOK /\ ChainShape
  BY DEF SubscriptionsInv
<1> DEFINE r == Head(chain).reg
<1>2. HeadIs("register") /\ "register" # "start"
  BY DEF RegisterStores
<1>3. /\ 1 \in 1..Len(chain) /\ r = chain[1].reg /\ r \in Registration
      /\ chain[1].op = "register" /\ service \notin {"down", "recovering"}
  BY <1>2, HeadFacts
<1>4. /\ reg[r] = "asked" /\ reg' = [reg EXCEPT ![r] = "stored"] /\ disk' = disk \cup {r}
      /\ UNCHANGED << service, chain, ahead, priors, watch, faults >>
      /\ UNCHANGED world /\ UNCHANGED history
  BY DEF RegisterStores
<1> HIDE DEF r
<1>5. \A q \in Registration : reg[q] # "new" => reg'[q] # "new"
  BY <1>1, <1>4 DEF TypeOK
<1>6. chain' \in Seq(Mutations) /\ Lined(chain', reg')
  BY <1>1, <1>4, <1>5, LinedOnward DEF ChainShape, TypeOK
<1>7. \A q \in Registration : q = r \/ Has(chain, q) => Has(chain', q)
  BY <1>3, <1>4 DEF Has
<1>8. \A i \in 1..Len(chain') : chain'[i].op # "start"
  BY <1>1, <1>3, <1>4 DEF ChainShape
<1> QED
  BY <1>3, <1>4, <1>6, <1>7, <1>8, MadeKeeps

\* What a mutation appends is the rejection or the acceptance of a known registration
LEMMA AppendFacts ==
    ASSUME SubscriptionsInv, service \notin {"down", "recovering"},
           NEW op \in {"supersede", "reject"}, NEW r \in Registration, reg[r] # "new",
           NEW left \in SUBSET Registration, chain' = Appended(chain, op, r, left)
    PROVE  /\ chain' \in Seq(Mutations) /\ Lined(chain', reg)
           /\ \A i \in 1..Len(chain') :
                 \/ i \in 1..Len(chain) /\ chain'[i] = chain[i]
                 \/ i = Len(chain) + 1 /\ chain'[i] = [op |-> op, reg |-> r, left |-> left]
           /\ \A i \in 1..Len(chain') : chain'[i].op # "start"
           /\ \A q \in Registration : Has(chain, q) => Has(chain', q)
<1>1. ChainShape /\ chain \in Seq(Mutations) /\ Lined(chain, reg) /\ Len(chain) \in Nat
  BY DEF SubscriptionsInv, TypeOK, ChainShape
<1> DEFINE e == [op |-> op, reg |-> r, left |-> left]
<1>2. e \in Mutations /\ e.op = op /\ e.reg = r
  BY Numbers DEF Mutations
<1>3. chain' = Append(chain, e)
  BY DEF Appended
<1> HIDE DEF e
<1>4. /\ chain' \in Seq(Mutations) /\ Lined(chain', reg) /\ Len(chain') = Len(chain) + 1
      /\ \A i \in 1..Len(chain) : chain'[i] = chain[i]
      /\ chain'[Len(chain) + 1] = e
      /\ \A q \in Registration : Has(chain, q) => Has(chain', q)
  BY <1>1, <1>2, <1>3, AppendLined
<1>5. \A i \in 1..Len(chain') : i \in 1..Len(chain) \/ i = Len(chain) + 1
  BY <1>1, <1>4
<1>6. \A i \in 1..Len(chain') : chain'[i].op # "start"
  BY <1>1, <1>2, <1>4, <1>5 DEF ChainShape
<1> QED
  BY <1>4, <1>5, <1>6 DEF e

\* Something is said to the caller of a candidate, or of an accepted registration
LEMMA SaidKeeps ==
    ASSUME SubscriptionsInv, service \notin {"down", "recovering"},
           NEW r \in Registration, reg[r] # "new",
           NEW state \in {"rejecting", "accepted"}, reg' = [reg EXCEPT ![r] = state],
           watch' \in [Watch -> WatchTypes],
           \A w \in Watch : Progress(watch[w], watch'[w]),
           chain' \in Seq(Mutations), Lined(chain', reg),
           \A i \in 1..Len(chain') : chain'[i].op # "start",
           \A q \in Registration : Has(chain, q) => Has(chain', q),
           UNCHANGED << service, disk, ahead, priors, faults >>,
           UNCHANGED world, UNCHANGED history
    PROVE  SubscriptionsInv'
<1>1. TypeOK /\ ChainShape
  BY DEF SubscriptionsInv
<1>2. /\ reg' \in [Registration -> RegistrationStates] /\ Onward
      /\ reg'[r] = state /\ \A q \in Registration : q # r => reg'[q] = reg[q]
  BY <1>1, OneOnward
<1>3. \A q \in Registration : reg'[q] \in {"asked", "stored"} => Has(chain', q)
  BY <1>1, <1>2 DEF ChainShape
<1>4. service' \in {"open", "closing", "stopping", "closed"}
  BY <1>1, ServiceTyped
<1> QED
  BY <1>1, <1>2, <1>3, <1>4, StepKeeps DEF TypeOK, world, history

LEMMA RejectKeeps ==
    ASSUME SubscriptionsInv, NEW r \in Registration, Reject(r)
    PROVE  SubscriptionsInv'
<1>1. TypeOK /\ WatchesSound
  BY DEF SubscriptionsInv
<1>2. /\ reg[r] = "candidate" \/ watch[r].at # "none"
      /\ reg[r] # "new" /\ service # "down" /\ r \in Watch
  BY Numbers DEF Reject, Up
<1>3. service \notin {"down", "recovering"}
  BY <1>2 DEF SubscriptionsInv, Fresh, NoWatch
<1>4. /\ reg' = [reg EXCEPT ![r] = "rejecting"]
      /\ chain' = Appended(chain, "reject", r, watch[r].records)
      /\ UNCHANGED << service, disk, ahead, priors, watch, faults >>
      /\ UNCHANGED world /\ UNCHANGED history
  BY DEF Reject
<1>5. watch[r].records \in SUBSET Registration
  BY <1>1, <1>2, WatchTyped, Fields
<1>6. /\ chain' \in Seq(Mutations) /\ Lined(chain', reg)
      /\ \A i \in 1..Len(chain') : chain'[i].op # "start"
      /\ \A q \in Registration : Has(chain, q) => Has(chain', q)
  BY <1>2, <1>3, <1>4, <1>5, AppendFacts
<1>7. /\ watch' \in [Watch -> WatchTypes]
      /\ \A w \in Watch : Progress(watch[w], watch'[w])
  BY <1>1, <1>4, SameProgress
<1> QED
  BY <1>2, <1>3, <1>4, <1>6, <1>7, SaidKeeps

LEMMA RecordsTyped ==
    ASSUME NEW ws \in [Watch -> WatchTypes], NEW S \in SUBSET Watch
    PROVE  RecordsOf(ws, S) \in SUBSET Registration
BY Fields DEF RecordsOf

LEMMA AcceptKeeps ==
    ASSUME SubscriptionsInv, NEW r \in Registration, Accept(r)
    PROVE  SubscriptionsInv'
<1>1. TypeOK /\ WatchesSound /\ AllSound(watch)
  BY DEF SubscriptionsInv, AllSound, TypeOK, WatchesSound
<1>2. reg[r] = "candidate" /\ service # "down"
  BY DEF Accept, Up
<1>3. service \notin {"down", "recovering"}
  BY <1>2 DEF SubscriptionsInv, Fresh
<1>4. /\ reg' = [reg EXCEPT ![r] = "accepted"]
      /\ watch' = Accepting(watch, r, priors[r])
      /\ chain' = Superseding(watch, r, priors[r], chain)
      /\ UNCHANGED << service, disk, ahead, priors, faults >>
      /\ UNCHANGED world /\ UNCHANGED history
  BY DEF Accept
<1>5. AcceptsTo(watch, priors[r], watch')
  BY <1>1, <1>4, AcceptsWatches
<1>6. /\ chain' \in Seq(Mutations) /\ Lined(chain', reg)
      /\ \A i \in 1..Len(chain') : chain'[i].op # "start"
      /\ \A q \in Registration : Has(chain, q) => Has(chain', q)
  <2>1. RecordsOf(watch, priors[r]) \in SUBSET Registration
    BY <1>1, RecordsTyped DEF TypeOK
  <2>2. CASE chain' = chain
    BY <1>1, <1>3, <2>2 DEF SubscriptionsInv, ChainShape, TypeOK
  <2>3. CASE chain' = Appended(chain, "supersede", r, RecordsOf(watch, priors[r]))
    BY <1>2, <1>3, <2>1, <2>3, AppendFacts
  <2> QED
    BY <1>4, <2>2, <2>3 DEF Superseding
<1> QED
  BY <1>2, <1>3, <1>4, <1>5, <1>6, SaidKeeps DEF AcceptsTo

-----------------------------------------------------------------------------
(***************************************************************************)
(* A watch is attached for a registration                                  *)
(***************************************************************************)
\* What the attachment of r leaves: every watch as it was, or stopped, and that of r
Attached(r) ==
    /\ watch' \in [Watch -> WatchTypes]
    /\ \A w \in Watch :
          /\ Sound(watch'[w])
          /\ watch'[w].records = IF w = r THEN {r} ELSE watch[w].records
          /\ (watch'[w].at # "none") = (w = r \/ watch[w].at # "none")
          /\ Ready(watch'[w]) => w = r \/ Ready(watch[w])
          /\ Informed(watch'[w]) => w # r /\ Informed(watch[w])

LEMMA GroupTyped ==
    Group(watch) \in SUBSET Watch
BY DEF Group

LEMMA AttachesOne ==
    ASSUME SubscriptionsInv, NEW now \in BOOLEAN, RegisterAttaches(now)
    PROVE  LET r     == chain[1].reg
               prior == Group(watch)
               ws    == Attach(watch, r, {r}, TRUE)
           IN  /\ r \in Registration /\ reg[r] = "stored" /\ service \notin {"down", "recovering"}
               /\ chain[1].op = "register" /\ chain # << >> /\ Head(chain) = chain[1]
               /\ \A w \in Watch : watch[w].at # "none" => w < r
               /\ \A w \in prior : w < r
               /\ AttachesTo(watch, r, {r}, TRUE, ws)
               /\ now => AcceptsTo(ws, prior, watch')
               /\ ~now => watch' = ws
               /\ Attached(r)
<1> DEFINE r == chain[1].reg
<1> DEFINE prior == Group(watch)
<1> DEFINE ws == Attach(watch, r, {r}, TRUE)
<1>1. TypeOK /\ WatchesSound /\ InOrder
  BY DEF SubscriptionsInv
<1>2. HeadIs("register") /\ "register" # "start"
  BY DEF RegisterAttaches
<1>3. /\ chain # << >> /\ Head(chain) = chain[1] /\ r \in Registration
      /\ service \notin {"down", "recovering"} /\ chain[1].op = "register"
  BY <1>2, HeadFacts
<1>4. /\ reg[r] = "stored"
      /\ watch' = IF now THEN Accepting(ws, r, prior) ELSE ws
  BY <1>3 DEF RegisterAttaches
<1> HIDE DEF r
<1>5. \A w \in Watch : watch[w].at # "none" => w < r
  BY <1>1, <1>3, <1>4 DEF InOrder
<1>6. \A w \in prior : w < r
  BY <1>1, <1>5 DEF Group, WatchesSound, Sound
<1>7. AttachesTo(watch, r, {r}, TRUE, ws)
  <2>1. /\ watch \in [Watch -> WatchTypes] /\ r \in Watch /\ {r} \in SUBSET Registration
        /\ TRUE \in BOOLEAN
    BY <1>1, <1>3, Numbers DEF TypeOK
  <2> QED
    BY <2>1, Attaches
<1> HIDE DEF prior, ws
<1>8. AllSound(ws)
  <2>1. \A w \in Watch : w # r => Sound(ws[w])
    BY <1>1, <1>7 DEF AttachesTo, WatchesSound
  <2> QED
    BY <1>7, <2>1 DEF AllSound, AttachesTo
<1>9. /\ now => AcceptsTo(ws, prior, watch')
      /\ ~now => watch' = ws
  BY <1>3, <1>4, <1>8, AcceptsWatches
<1>10. watch' \in [Watch -> WatchTypes] /\ \A w \in Watch : Progress(ws[w], watch'[w])
  <2>1. CASE now
    BY <1>9, <2>1 DEF AcceptsTo
  <2>2. CASE ~now
    <3>1. watch' = ws
      BY <1>9, <2>2
    <3>2. \A w \in Watch : ws[w] \in WatchTypes /\ Sound(ws[w])
      BY <1>8 DEF AllSound
    <3>3. \A w \in Watch : Progress(ws[w], ws[w])
      BY <3>2, Stays DEF Continues
    <3> QED
      BY <1>7, <3>1, <3>3 DEF AttachesTo
  <2> QED
    BY <2>1, <2>2
<1>11. Attached(r)
  <2>1. ASSUME NEW w \in Watch
        PROVE  /\ Sound(watch'[w])
               /\ watch'[w].records = IF w = r THEN {r} ELSE watch[w].records
               /\ (watch'[w].at # "none") = (w = r \/ watch[w].at # "none")
               /\ Ready(watch'[w]) => w = r \/ Ready(watch[w])
               /\ Informed(watch'[w]) => w # r /\ Informed(watch[w])
    <3>1. /\ Sound(watch'[w]) /\ watch'[w].records = ws[w].records
          /\ (watch'[w].at = "none") = (ws[w].at = "none")
          /\ Ready(watch'[w]) => Ready(ws[w])
          /\ Informed(watch'[w]) => Informed(ws[w])
      BY <1>10 DEF Progress
    <3>2. CASE w = r
      <4>1. ws[w].records = {r} /\ ws[w].at = "undecided" /\ ~Informed(ws[w])
        BY <1>7, <3>2 DEF AttachesTo
      <4> QED
        BY <3>1, <3>2, <4>1
    <3>3. CASE w # r
      <4>1. ws[w] = watch[w]
        BY <1>7, <3>3 DEF AttachesTo
      <4> QED
        BY <3>1, <3>3, <4>1
    <3> QED
      BY <3>2, <3>3
  <2> QED
    BY <1>10, <2>1 DEF Attached
<1> QED
  BY <1>3, <1>4, <1>5, <1>6, <1>7, <1>9, <1>11 DEF r, prior, ws

\* Whoever is not attached yet comes after the registration that is
LEMMA LaterThanHead ==
    ASSUME SubscriptionsInv, NEW r \in Registration, chain # << >>, chain[1].op = "register",
           chain[1].reg = r, reg[r] # "new", NEW q \in Registration, q # r,
           reg[q] \in {"new", "asked", "stored"}
    PROVE  r < q
<1>1. TypeOK /\ InOrder /\ ChainShape
  BY DEF SubscriptionsInv
<1>2. q \in Nat /\ r \in Nat
  BY Numbers
<1>3. CASE reg[q] = "new"
  <2>1. ~(q < r)
    BY <1>1, <1>3 DEF InOrder
  <2> QED
    BY <1>2, <2>1
<1>4. CASE reg[q] \in {"asked", "stored"}
  <2>1. PICK i \in 1..Len(chain) : chain[i].op = "register" /\ chain[i].reg = q
    BY <1>1, <1>4 DEF ChainShape, Has
  <2>2. 1 < i /\ 1 \in 1..Len(chain)
    <3>1. i # 1 /\ Len(chain) \in Nat
      BY <1>1, <2>1, ChainTyped
    <3> QED
      BY <3>1
  <2> QED
    BY <1>1, <2>1, <2>2 DEF ChainShape, Lined
<1> QED
  BY <1>3, <1>4

LEMMA AttachesChain ==
    ASSUME SubscriptionsInv, NEW now \in BOOLEAN, RegisterAttaches(now)
    PROVE  /\ chain' \in Seq(Mutations) /\ Lined(chain', reg) /\ ahead' \in Nat
           /\ \A i \in 1..Len(chain') : chain'[i].op # "start"
           /\ \A q \in Registration : Has(chain, q) /\ q # chain[1].reg => Has(chain', q)
           /\ \A i \in 1..Len(chain') :
                 \/ i + 1 \in 1..Len(chain) /\ chain'[i] = chain[i + 1]
                 \/ /\ now
                    /\ chain'[i] = [op |-> "supersede", reg |-> chain[1].reg,
                                    left |-> RecordsOf(Attach(watch, chain[1].reg,
                                                              {chain[1].reg}, TRUE),
                                                       Group(watch))]
<1> DEFINE r == chain[1].reg
<1> DEFINE ws == Attach(watch, r, {r}, TRUE)
<1> DEFINE left == RecordsOf(ws, Group(watch))
<1> DEFINE e == [op |-> "supersede", reg |-> r, left |-> left]
<1> DEFINE rest == Tail(chain)
<1>1. /\ r \in Registration /\ reg[r] = "stored" /\ service \notin {"down", "recovering"}
      /\ chain[1].op = "register" /\ chain # << >> /\ Head(chain) = chain[1]
      /\ AttachesTo(watch, r, {r}, TRUE, ws)
  BY AttachesOne
<1>2. /\ chain' = IF now THEN Superseding(ws, r, Group(watch), rest) ELSE rest
      /\ Passed
  BY <1>1 DEF RegisterAttaches
<1>3. chain' = rest \/ (now /\ chain' = Append(rest, e))
  BY <1>2 DEF Superseding, Appended
<1> HIDE DEF ws
<1>4. left \in SUBSET Registration
  BY <1>1, GroupTyped, RecordsTyped DEF AttachesTo
<1> HIDE DEF left
<1>5. e \in Mutations /\ e.op = "supersede" /\ e.reg = r
  BY <1>1, <1>4, Numbers DEF Mutations
<1> HIDE DEF e, r
<1>6. chain \in Seq(Mutations) /\ Lined(chain, reg) /\ ahead \in Nat
  BY DEF SubscriptionsInv, TypeOK, ChainShape
<1>7. ahead' \in Nat
  BY <1>2, <1>6 DEF Passed
<1>8. /\ rest \in Seq(Mutations) /\ Lined(rest, reg)
      /\ \A i \in 1..Len(rest) :
            /\ i + 1 \in 1..Len(chain) /\ rest[i] = chain[i + 1] /\ rest[i].op # "start"
      /\ \A q \in Registration :
            Has(chain, q) /\ ~(chain[1].op = "register" /\ chain[1].reg = q) => Has(rest, q)
  BY <1>1, <1>6, TailLined
<1>9. \A q \in Registration : Has(chain, q) /\ q # r => Has(rest, q)
  BY <1>8 DEF r
<1> HIDE DEF rest
<1>10. CASE chain' = rest
  BY <1>7, <1>8, <1>9, <1>10 DEF r
<1>11. CASE now /\ chain' = Append(rest, e)
  <2>1. /\ chain' \in Seq(Mutations) /\ Lined(chain', reg) /\ Len(chain') = Len(rest) + 1
        /\ \A i \in 1..Len(rest) : chain'[i] = rest[i]
        /\ chain'[Len(rest) + 1] = e
        /\ \A q \in Registration : Has(rest, q) => Has(chain', q)
    BY <1>1, <1>5, <1>8, <1>11, AppendLined
  <2>2. \A i \in 1..Len(chain') : i \in 1..Len(rest) \/ i = Len(rest) + 1
    BY <1>8, <2>1
  <2>3. \A i \in 1..Len(chain') :
          (i + 1 \in 1..Len(chain) /\ chain'[i] = chain[i + 1]) \/ chain'[i] = e
    BY <1>8, <2>1, <2>2
  <2>4. \A i \in 1..Len(chain') : chain'[i].op # "start"
    BY <1>5, <1>8, <2>1, <2>2
  <2>5. \A q \in Registration : Has(chain, q) /\ q # r => Has(chain', q)
    BY <1>9, <2>1
  <2> QED
    BY <1>7, <1>11, <2>1, <2>3, <2>4, <2>5 DEF r, e, left, ws
<1> QED
  BY <1>3, <1>10, <1>11

LEMMA AttachesKeeps ==
    ASSUME SubscriptionsInv, NEW now \in BOOLEAN, RegisterAttaches(now)
    PROVE  SubscriptionsInv'
<1> DEFINE r == chain[1].reg
<1> DEFINE prior == Group(watch)
<1>1. TypeOK /\ WatchesSound /\ OwnRecords /\ InOrder /\ ChainShape /\ Heard /\ Reported
  BY DEF SubscriptionsInv
<1>2. /\ r \in Registration /\ reg[r] = "stored" /\ service \notin {"down", "recovering"}
      /\ chain[1].op = "register" /\ chain # << >> /\ Head(chain) = chain[1]
      /\ \A w \in prior : w < r
      /\ Attached(r)
  BY AttachesOne
<1>3. /\ chain' \in Seq(Mutations) /\ Lined(chain', reg) /\ ahead' \in Nat
      /\ \A i \in 1..Len(chain') : chain'[i].op # "start"
      /\ \A q \in Registration : Has(chain, q) /\ q # r => Has(chain', q)
  BY AttachesChain
<1>4. /\ priors' = [priors EXCEPT ![r] = prior]
      /\ reg' = [reg EXCEPT ![r] = IF now THEN "created" ELSE "candidate"]
      /\ UNCHANGED << service, disk, faults >>
      /\ UNCHANGED world /\ UNCHANGED history
  BY <1>2 DEF RegisterAttaches
<1>5. prior \in SUBSET Watch
  BY GroupTyped
<1> HIDE DEF prior
<1> HIDE DEF r
<1>6. /\ reg' \in [Registration -> RegistrationStates]
      /\ reg'[r] = IF now THEN "created" ELSE "candidate"
      /\ \A q \in Registration : q # r => reg'[q] = reg[q]
      /\ priors' \in [Registration -> SUBSET Watch] /\ priors'[r] = prior
      /\ \A q \in Registration : q # r => priors'[q] = priors[q]
  BY <1>1, <1>2, <1>4, <1>5 DEF TypeOK, RegistrationStates
<1>7. reg'[r] \in {"created", "candidate"}
  BY <1>6
<1>8. \A q \in Registration : reg'[q] \in {"new", "asked", "stored"} =>
        q # r /\ reg[q] = reg'[q] /\ r < q
  <2> SUFFICES ASSUME NEW q \in Registration, reg'[q] \in {"new", "asked", "stored"}
               PROVE  q # r /\ reg[q] = reg'[q] /\ r < q
    OBVIOUS
  <2>1. q # r /\ reg[q] = reg'[q]
    BY <1>6, <1>7
  <2>2. reg[q] \in {"new", "asked", "stored"} /\ reg[r] # "new" /\ chain[1].reg = r
    BY <1>2, <2>1 DEF r
  <2> QED
    BY <1>2, <2>1, <2>2, LaterThanHead
<1>9. \A w \in Watch : /\ watch'[w].records = IF w = r THEN {r} ELSE watch[w].records
                       /\ (watch'[w].at # "none") = (w = r \/ watch[w].at # "none")
  BY <1>2 DEF Attached
<1>10. Recovered \in Watch /\ Recovered # r /\ watch'[Recovered].records = watch[Recovered].records
  BY <1>2, <1>9, Numbers
<1>11. TypeOK'
  BY <1>1, <1>2, <1>3, <1>4, <1>6 DEF TypeOK, world, history, Attached
<1>12. WatchesSound' /\ Heard'
  BY <1>1, <1>2, <1>4, <1>9 DEF WatchesSound, Heard, Attached, history
<1>13. OwnRecords'
  <2>1. \A q \in watch[Recovered].records : q \in Registration /\ q # r
    <3>1. watch[Recovered].records \subseteq Registration
      BY <1>1, <1>10, WatchTyped, Fields
    <3>2. ~(r < r)
      BY <1>2, Numbers
    <3> QED
      BY <1>1, <1>2, <3>1, <3>2 DEF InOrder
  <2> QED
    BY <1>1, <1>9, <1>10, <2>1, Numbers DEF OwnRecords
<1>14. InOrder'
  <2>1. \A q, p \in Registration : q < p /\ reg'[q] = "new" => reg'[p] = "new"
    <3> SUFFICES ASSUME NEW q \in Registration, NEW p \in Registration, q < p, reg'[q] = "new"
                 PROVE  reg'[p] = "new"
      OBVIOUS
    <3>1. reg[q] = "new" /\ reg[p] = "new"
      BY <1>1, <1>8 DEF InOrder
    <3> QED
      BY <1>2, <1>6, <3>1
  <2>2. \A w \in Watch, q \in Registration :
          watch'[w].at # "none" /\ reg'[q] \in {"new", "asked", "stored"} => w < q
    BY <1>1, <1>8, <1>9 DEF InOrder
  <2>3. \A q \in watch'[Recovered].records, p \in Registration :
          reg'[p] \in {"new", "asked", "stored", "candidate"} => q < p
    BY <1>1, <1>2, <1>6, <1>10 DEF InOrder
  <2>4. \A q \in Registration : \A w \in priors'[q] : w < q
    BY <1>1, <1>2, <1>6 DEF InOrder
  <2>5. \A q \in disk' : reg'[q] \notin {"new", "asked"}
    BY <1>1, <1>4, <1>8 DEF InOrder, TypeOK
  <2> QED
    BY <2>1, <2>2, <2>3, <2>4, <2>5 DEF InOrder
<1>15. ChainShape'
  <2>1. \A q \in Registration : reg[q] # "new" => reg'[q] # "new"
    BY <1>8
  <2>2. Lined(chain', reg')
    BY <1>3, <2>1, LinedOnward
  <2>3. \A q \in Registration : reg'[q] \in {"asked", "stored"} => Has(chain', q)
    BY <1>1, <1>3, <1>8 DEF ChainShape
  <2> QED
    BY <1>3, <2>2, <2>3 DEF ChainShape
<1>16. Fresh'
  BY <1>2, <1>4 DEF Fresh
<1>17. Reported'
  <2>1. reports' = reports /\ lives' = lives
    BY <1>4 DEF history, world
  <2>2. reports[r] = 0 /\ lives > 0 /\ lives \in Nat
    BY <1>1, <1>2 DEF Reported, TypeOK
  <2>3. ASSUME NEW w \in Watch, Ready(watch'[w])
        PROVE  \A q \in watch'[w].records : reports[q] < lives
    <3>1. CASE w = r
      BY <1>9, <2>2, <3>1
    <3>2. CASE w # r
      BY <1>1, <1>2, <1>9, <2>3, <3>2 DEF Reported, Attached
    <3> QED
      BY <3>1, <3>2
  <2> QED
    BY <1>1, <1>2, <1>4, <1>8, <2>1, <2>3 DEF Reported
<1> QED
  BY <1>11, <1>12, <1>13, <1>14, <1>15, <1>16, <1>17 DEF SubscriptionsInv

-----------------------------------------------------------------------------
(***************************************************************************)
(* The life of the daemon, and the world                                   *)
(***************************************************************************)
LEMMA BootKeeps ==
    ASSUME SubscriptionsInv, Boot
    PROVE  SubscriptionsInv'
<1>1. TypeOK /\ WatchesSound /\ OwnRecords /\ InOrder /\ ChainShape /\ Heard /\ Reported /\ Fresh
  BY DEF SubscriptionsInv
<1> DEFINE e == [op |-> "start", reg |-> Recovered, left |-> {}]
<1>2. e \in Mutations /\ e.op = "start"
  BY Numbers DEF Mutations
<1>3. chain' = Append(<< >>, e)
  BY DEF Boot, Appended
<1> HIDE DEF e
<1>4. /\ chain' \in Seq(Mutations) /\ Len(chain') = 1 /\ chain'[1] = e
      /\ \A i \in 1..Len(chain') : i = 1
  BY <1>2, <1>3
<1>5. /\ service = "down" /\ service' = "recovering" /\ lives' = lives + 1
      /\ UNCHANGED << disk, ahead, watch, active, attached, faults, reg, priors, heard, dropped,
                      reports >>
  BY DEF Boot, callers, history
<1>6. TypeOK'
  BY <1>1, <1>4, <1>5 DEF TypeOK
<1>7. Lined(chain', reg')
  BY <1>2, <1>4 DEF Lined
<1>8. \A r \in Registration : reg[r] \notin {"asked", "stored", "candidate", "rejecting"}
  BY <1>1, <1>5 DEF Fresh
<1>9. ChainShape' /\ Fresh'
  BY <1>1, <1>2, <1>4, <1>5, <1>7, <1>8 DEF ChainShape, Fresh
<1>10. WatchesSound' /\ OwnRecords' /\ InOrder' /\ Heard'
  BY <1>1, <1>5 DEF WatchesSound, OwnRecords, InOrder, Heard
<1>11. Reported'
  <2>1. /\ lives \in Nat /\ reports \in [Registration -> Nat]
        /\ \A r \in Registration : reports[r] <= lives
    BY <1>1 DEF TypeOK, Reported
  <2>2. \A r \in Registration : reports'[r] < lives' /\ reports'[r] <= lives'
    BY <1>5, <2>1
  <2>3. \A w \in Watch : ~Ready(watch'[w])
    BY <1>1, <1>5, NoWatchTyped DEF Fresh
  <2> QED
    BY <1>1, <1>5, <2>1, <2>2, <2>3 DEF Reported
<1> QED
  BY <1>1, <1>6, <1>9, <1>10, <1>11 DEF SubscriptionsInv

\* What recovery finds on disk was there before this start's registrations
LEMMA StartKeeps ==
    ASSUME SubscriptionsInv, Start
    PROVE  SubscriptionsInv'
<1>1. TypeOK /\ WatchesSound /\ OwnRecords /\ InOrder /\ ChainShape /\ Heard /\ Reported /\ Fresh
  BY DEF SubscriptionsInv
<1>2. HeadIs("start")
  BY DEF Start
<1>3. /\ chain # << >> /\ 1 \in 1..Len(chain) /\ chain[1].op = "start" /\ service = "recovering"
  BY <1>1, <1>2, HeadFacts DEF ChainShape
<1>4. /\ watch' = (IF disk = {} THEN watch ELSE Attach(watch, Recovered, disk, FALSE))
      /\ service' = "open" /\ chain' = Tail(chain) /\ Passed
      /\ UNCHANGED << disk, faults, reg, priors, active, attached, lives, heard, dropped,
                      reports >>
  BY DEF Start, callers, world, history
<1>5. /\ \A w \in Watch : watch[w] = NoWatch
      /\ \A r \in Registration : reg[r] \notin {"asked", "stored", "candidate", "rejecting"}
  BY <1>1, <1>3 DEF Fresh
<1>6. /\ chain \in Seq(Mutations) /\ Lined(chain, reg) /\ ahead \in Nat /\ disk \subseteq Registration
  BY <1>1 DEF TypeOK, ChainShape
<1>7. /\ chain' \in Seq(Mutations) /\ Lined(chain', reg)
      /\ \A i \in 1..Len(chain') : chain'[i].op # "start"
  BY <1>3, <1>4, <1>6, TailLined
<1>8. ahead' \in Nat
  BY <1>4, <1>6 DEF Passed
<1>9. /\ watch' \in [Watch -> WatchTypes]
      /\ \A w \in Watch : /\ Sound(watch'[w]) /\ ~Informed(watch'[w])
                          /\ w # Recovered => watch'[w] = NoWatch
      /\ watch'[Recovered].records \subseteq disk
  <2>1. CASE disk = {}
    <3>1. \A w \in Watch : watch'[w] = NoWatch
      BY <1>4, <1>5, <2>1
    <3>2. watch'[Recovered].records = {}
      BY <3>1, Numbers DEF NoWatch
    <3> QED
      BY <1>1, <1>4, <2>1, <3>1, <3>2, NoWatchTyped DEF TypeOK
  <2>2. CASE disk # {}
    <3>1. /\ watch \in [Watch -> WatchTypes] /\ Recovered \in Watch /\ disk \in SUBSET Registration
          /\ FALSE \in BOOLEAN
      BY <1>1, Numbers DEF TypeOK
    <3>2. AttachesTo(watch, Recovered, disk, FALSE, Attach(watch, Recovered, disk, FALSE))
      BY <3>1, Attaches
    <3>3. AttachesTo(watch, Recovered, disk, FALSE, watch')
      BY <1>4, <2>2, <3>2
    <3>4. \A w \in Watch : w # Recovered => watch'[w] = NoWatch
      BY <1>5, <3>3 DEF AttachesTo
    <3> QED
      BY <3>3, <3>4, NoWatchTyped DEF AttachesTo
  <2> QED
    BY <2>1, <2>2
<1>10. /\ NoWatch.records = {} /\ NoWatch.at = "none" /\ Recovered \in Watch /\ Recovered = 0
       /\ \A r \in Registration : r \in Watch /\ r # Recovered /\ r > 0 /\ r \in Nat
       /\ \A r \in Registration : watch'[r] = NoWatch
  BY <1>9, Numbers DEF NoWatch
<1>11. TypeOK'
  BY <1>1, <1>4, <1>7, <1>8, <1>9 DEF TypeOK
<1>12. WatchesSound' /\ Heard'
  BY <1>9 DEF WatchesSound, Heard
<1>13. OwnRecords'
  BY <1>6, <1>9, <1>10 DEF OwnRecords
<1>14. InOrder'
  <2>1. \A w \in Watch, r \in Registration :
          watch'[w].at # "none" /\ reg'[r] \in {"new", "asked", "stored"} => w < r
    <3> SUFFICES ASSUME NEW w \in Watch, NEW r \in Registration, watch'[w].at # "none"
                 PROVE  w < r
      OBVIOUS
    <3>1. w = Recovered
      BY <1>9, <1>10
    <3> QED
      BY <1>10, <3>1
  <2>2. \A q \in watch'[Recovered].records, r \in Registration :
          reg'[r] \in {"new", "asked", "stored", "candidate"} => q < r
    <3> SUFFICES ASSUME NEW q \in disk, NEW r \in Registration,
                        reg[r] \in {"new", "asked", "stored", "candidate"}
                 PROVE  q < r
      BY <1>4, <1>9
    <3>1. reg[r] = "new" /\ reg[q] # "new" /\ q \in Registration
      BY <1>1, <1>5, <1>6 DEF InOrder
    <3>2. ~(r < q) /\ q # r
      BY <1>1, <3>1 DEF InOrder
    <3>3. q \in Nat /\ r \in Nat
      BY <1>10, <3>1
    <3> QED
      BY <3>2, <3>3
  <2> QED
    BY <1>1, <1>4, <2>1, <2>2 DEF InOrder
<1>15. ChainShape'
  BY <1>4, <1>5, <1>7 DEF ChainShape
<1>16. Fresh'
  BY <1>4 DEF Fresh
<1>17. Reported'
  <2>1. \A w \in Watch : \A r \in watch'[w].records : reports[r] < lives
    <3> SUFFICES ASSUME NEW w \in Watch, NEW r \in watch'[w].records
                 PROVE  r \in Registration
      BY <1>1, <1>3 DEF Reported
    <3> QED
      BY <1>9, Fields
  <2> QED
    BY <1>1, <1>3, <1>4, <2>1 DEF Reported
<1> QED
  BY <1>11, <1>12, <1>13, <1>14, <1>15, <1>16, <1>17 DEF SubscriptionsInv

\* A crash, or the end of the process, leaves the disk
LEMMA ForgetsKeeps ==
    ASSUME SubscriptionsInv, Forgets
    PROVE  SubscriptionsInv'
<1>1. TypeOK /\ InOrder /\ Reported
  BY DEF SubscriptionsInv
<1>2. /\ service' = "down" /\ chain' = << >> /\ ahead' = 0
      /\ watch' = [w \in Watch |-> NoWatch]
      /\ priors' = [r \in Registration |-> {}]
      /\ reg' = [r \in Registration |->
            IF reg[r] \in {"asked", "stored", "candidate", "rejecting"} THEN "orphan" ELSE reg[r]]
      /\ UNCHANGED << disk, faults, active, attached, lives, heard, dropped, reports >>
  BY DEF Forgets, world, history
<1>3. /\ \A w \in Watch : watch'[w] = NoWatch
      /\ NoWatch.records = {} /\ NoWatch.at = "none" /\ Recovered \in Watch
      /\ \A r \in Registration : r \in Watch
  BY <1>2, Numbers DEF NoWatch
<1>4. \A r \in Registration :
        /\ reg'[r] \in RegistrationStates
        /\ reg'[r] \notin {"asked", "stored", "candidate", "rejecting"}
        /\ (reg'[r] = "new") = (reg[r] = "new")
  BY <1>1, <1>2 DEF TypeOK, RegistrationStates
<1>5. TypeOK'
  BY <1>1, <1>2, <1>4, NoWatchTyped DEF TypeOK
<1>6. WatchesSound' /\ Heard' /\ OwnRecords'
  BY <1>3, NoWatchTyped DEF WatchesSound, Heard, OwnRecords
<1>7. InOrder'
  BY <1>1, <1>2, <1>3, <1>4 DEF InOrder, TypeOK
<1>8. ChainShape'
  BY <1>2, <1>4 DEF ChainShape, Lined
<1>9. Fresh'
  BY <1>2, <1>3, <1>4 DEF Fresh
<1>10. Reported'
  BY <1>1, <1>2, <1>3, <1>4, NoWatchTyped DEF Reported
<1> QED
  BY <1>5, <1>6, <1>7, <1>8, <1>9, <1>10 DEF SubscriptionsInv

LEMMA CloseKeeps ==
    ASSUME SubscriptionsInv, Close \/ CloseReturns
    PROVE  SubscriptionsInv'
<1>1. TypeOK /\ WatchesSound
  BY DEF SubscriptionsInv
<1>2. /\ service \notin {"down", "recovering"} /\ service' \in {"closing", "closed"}
      /\ ahead' \in Nat
      /\ UNCHANGED << disk, chain, watch, faults >>
      /\ UNCHANGED callers /\ UNCHANGED world /\ UNCHANGED history
  <2>1. Len(chain) \in Nat
    BY <1>1, ChainTyped
  <2> QED
    BY <1>1, <2>1 DEF Close, CloseReturns, store, TypeOK
<1>3. /\ watch' \in [Watch -> WatchTypes]
      /\ \A w \in Watch : Progress(watch[w], watch'[w])
  BY <1>1, <1>2, SameProgress
<1> QED
  BY <1>1, <1>2, <1>3, WatchStepKeeps DEF TypeOK, callers, world, history

LEMMA CloseAbortsKeeps ==
    ASSUME SubscriptionsInv, CloseAborts
    PROVE  SubscriptionsInv'
<1>1. TypeOK /\ WatchesSound
  BY DEF SubscriptionsInv
<1>2. /\ service \notin {"down", "recovering"} /\ service' = "stopping"
      /\ ahead' = Len(chain)
      /\ watch' = Cancelled(watch, Group(watch), TRUE)
      /\ UNCHANGED << disk, chain, faults >>
      /\ UNCHANGED callers /\ UNCHANGED world /\ UNCHANGED history
  BY DEF CloseAborts
<1>3. ahead' \in Nat
  BY <1>1, <1>2, ChainTyped
<1>4. StopsTo(watch, Group(watch), TRUE, watch')
  BY <1>1, <1>2, StoppedProgress
<1> QED
  BY <1>1, <1>2, <1>3, <1>4, WatchStepKeeps DEF TypeOK, callers, world, history, StopsTo

\* The invariant says nothing of the caller and the child
LEMMA WorldKeeps ==
    ASSUME SubscriptionsInv, active' \in BOOLEAN, attached' \in BOOLEAN,
           UNCHANGED << service, disk, chain, ahead, reg, priors, watch, heard, dropped, reports,
                        faults, lives >>
    PROVE  SubscriptionsInv'
BY DEF SubscriptionsInv, TypeOK, WatchesSound, OwnRecords, InOrder, ChainShape, Fresh, Heard,
       Reported

-----------------------------------------------------------------------------
(***************************************************************************)
(* Every step keeps the invariant                                          *)
(***************************************************************************)
LEMMA InitHolds ==
    ASSUME Init
    PROVE  SubscriptionsInv
<1>1. /\ service = "down" /\ lives = 0 /\ faults = 0 /\ disk = {} /\ chain = << >> /\ ahead = 0
      /\ reg = [r \in Registration |-> "new"]
      /\ priors = [r \in Registration |-> {}]
      /\ watch = [w \in Watch |-> NoWatch]
      /\ active = TRUE /\ attached = TRUE
      /\ heard = {} /\ dropped = {} /\ reports = [r \in Registration |-> 0]
  BY DEF Init
<1>2. /\ \A w \in Watch : watch[w] = NoWatch
      /\ NoWatch.records = {} /\ NoWatch.at = "none" /\ Recovered \in Watch
      /\ \A r \in Registration : r \in Watch
  BY <1>1, Numbers DEF NoWatch
<1>3. TypeOK
  BY <1>1, NoWatchTyped DEF TypeOK, RegistrationStates
<1>4. WatchesSound /\ Heard /\ OwnRecords
  BY <1>2, NoWatchTyped DEF WatchesSound, Heard, OwnRecords
<1>5. InOrder
  BY <1>1, <1>2 DEF InOrder
<1>6. ChainShape
  BY <1>1 DEF ChainShape, Lined
<1>7. Fresh
  BY <1>1, <1>2 DEF Fresh
<1>8. Reported
  BY <1>1, <1>2, NoWatchTyped DEF Reported
<1> QED
  BY <1>3, <1>4, <1>5, <1>6, <1>7, <1>8 DEF SubscriptionsInv

LEMMA WatchCases ==
    ASSUME NEW w \in Watch, Runs(w) \/ Hears(w)
    PROVE  OwnSteps(w) \/ Removes(w) \/ Finishes(w) \/ Dispatches(w)
BY DEF Runs, Hears, OwnSteps

LEMMA NextKeeps ==
    ASSUME SubscriptionsInv, [Next]_vars
    PROVE  SubscriptionsInv'
<1>1. CASE Boot
  BY <1>1, BootKeeps
<1>2. CASE Crash \/ Exit
  BY <1>2, ForgetsKeeps DEF Crash, Exit
<1>3. CASE Close \/ CloseReturns
  BY <1>3, CloseKeeps
<1>4. CASE CloseAborts
  BY <1>4, CloseAbortsKeeps
<1>5. CASE Start
  BY <1>5, StartKeeps
<1>6. CASE RegisterStores
  BY <1>6, RegisterStoresKeeps
<1>7. CASE RegisterThrows
  BY <1>7, RegisterThrowsKeeps
<1>8. CASE \E now \in BOOLEAN : RegisterAttaches(now)
  BY <1>8, AttachesKeeps
<1>9. CASE RejectRemoves \/ SupersedeRemoves
  <2>1. "reject" # "start" /\ "supersede" # "start"
    OBVIOUS
  <2> QED
    BY <1>9, <2>1, RecordRemovedKeeps DEF RejectRemoves, SupersedeRemoves
<1>10. CASE RejectEnds
  BY <1>10, RejectEndsKeeps
<1>11. CASE SupersedeEnds
  BY <1>11, SupersedeEndsKeeps
<1>12. CASE \E r \in Registration : Register(r) \/ Accept(r) \/ Reject(r)
  BY <1>12, RegisterKeeps, AcceptKeeps, RejectKeeps
<1>13. CASE \E w \in Watch : Runs(w) \/ Hears(w)
  BY <1>13, WatchCases, OwnStepsKeep, RemovesKeeps, FinishesKeeps, DispatchesKeeps
<1>14. CASE CallerArchived \/ ChildDetached
  BY <1>14, WorldKeeps DEF CallerArchived, ChildDetached, store, callers, history,
     SubscriptionsInv, TypeOK
<1>15. CASE UNCHANGED vars
  BY <1>15, WorldKeeps DEF vars, SubscriptionsInv, TypeOK
<1> QED
  BY <1>1, <1>2, <1>3, <1>4, <1>5, <1>6, <1>7, <1>8, <1>9, <1>10, <1>11, <1>12, <1>13, <1>14,
     <1>15 DEF Next, Mutates, Closes

\* The inductive invariant holds of the finish subscriptions, whatever is lost or fails
THEOREM SubscriptionsInvHolds == Spec => []SubscriptionsInv
<1>1. Init => SubscriptionsInv
  BY InitHolds
<1>2. SubscriptionsInv /\ [Next]_vars => SubscriptionsInv'
  BY NextKeeps
<1> QED
  BY <1>1, <1>2, PTL DEF Spec

\* Every variable keeps its type: records, watches and callers have the shape index.ts gives them
THEOREM SubscriptionsTyped == Spec => []TypeOK
<1>1. SubscriptionsInv => TypeOK
  BY DEF SubscriptionsInv
<1> QED
  BY <1>1, SubscriptionsInvHolds, PTL

\* A caller is told of a finish at most once in each start of the daemon, however often the
\* delivery or the store fails: run sends again only what was not acknowledged
THEOREM ReportedOnceHolds == Spec => []ReportedOnce
<1>1. SubscriptionsInv => ReportedOnce
  BY DEF SubscriptionsInv, Reported, ReportedOnce
<1> QED
  BY <1>1, SubscriptionsInvHolds, PTL

-----------------------------------------------------------------------------
(***************************************************************************)
(* The intent of a caller, when no dispatch is rejected after it was       *)
(* accepted                                                                *)
(***************************************************************************)
\* An answer to a caller stands
Standing ==
    \A r \in Registration :
        /\ reg[r] \in {"accepted", "created"} => reg'[r] \in {"accepted", "created"}
        /\ reg[r] \in {"rejecting", "rejected"} => reg'[r] \in {"rejecting", "rejected"}

LEMMA PromisedStand ==
    ASSUME Standing
    PROVE  Promised \subseteq Promised'
BY DEF Standing, Promised

LEMMA RightfulStays ==
    ASSUME NEW e, NEW left \in SUBSET e.left, NEW f, f.op = e.op, f.reg = e.reg, f.left = left,
           Rightful(e, reg), Standing, e.op # "start" => e.reg \in Registration
    PROVE  Rightful(f, reg')
BY DEF Rightful, Standing

LEMMA RemovalsKept ==
    ASSUME ChainShape, Removals, Standing,
           service \notin {"down", "recovering"},
           \A i \in 1..Len(chain') :
              \/ Rightful(chain'[i], reg')
              \/ \E j \in 1..Len(chain) : /\ chain'[i].op = chain[j].op
                                          /\ chain'[i].reg = chain[j].reg
                                          /\ chain'[i].left \subseteq chain[j].left
    PROVE  Removals'
<1> SUFFICES ASSUME NEW i \in 1..Len(chain'), NEW j \in 1..Len(chain),
                    chain'[i].op = chain[j].op, chain'[i].reg = chain[j].reg,
                    chain'[i].left \subseteq chain[j].left
             PROVE  Rightful(chain'[i], reg')
  BY DEF Removals
<1>1. Rightful(chain[j], reg)
  BY DEF Removals
<1>2. chain[j].op # "start" => chain[j].reg \in Registration
  BY DEF ChainShape, Lined
<1> QED
  BY <1>1, <1>2, RightfulStays

LEMMA CoveredKept ==
    ASSUME Covered, Promised \subseteq Promised', Safe \subseteq Safe',
           \A r \in Registration :
              reg'[r] \in {"stored", "candidate", "accepted", "created"} =>
                 reg[r] \in {"stored", "candidate", "accepted", "created"} \/ r \in Safe'
    PROVE  Covered'
BY DEF Covered

LEMMA RemovedKept ==
    ASSUME Removed, disk' \subseteq disk,
           \A w \in Watch : watch'[w].at = "remove" =>
              /\ watch'[w].records = watch[w].records
              /\ \/ watch'[w].left = watch'[w].records
                 \/ watch[w].at = "remove" /\ watch'[w].left = watch[w].left
    PROVE  Removed'
BY DEF Removed

LEMMA AttendedKept ==
    ASSUME Attended, service' = "open" => service = "open", disk' \subseteq disk,
           disk \subseteq Registration, Promised \subseteq Promised',
           \A w \in Watch : /\ watch'[w].records = watch[w].records
                            /\ watch'[w].member = watch[w].member,
           \A r \in disk' : reg'[r] \notin {"stored", "rejected"}
                               => reg[r] \notin {"stored", "rejected"}
    PROVE  Attended'
<1> SUFFICES ASSUME service' = "open", NEW r \in disk',
                    reg'[r] \notin {"stored", "rejected"}, ~Replaced(r)'
             PROVE  \E w \in Watch : r \in watch'[w].records /\ watch'[w].member
  BY DEF Attended
<1>1. ~Replaced(r)
  BY DEF Replaced
<1>2. r \in disk /\ reg[r] \notin {"stored", "rejected"}
  OBVIOUS
<1>3. \E w \in Watch : r \in watch[w].records /\ watch[w].member
  BY <1>1, <1>2 DEF Attended
<1> QED
  BY <1>3

LEMMA Same ==
    ASSUME reg' = reg
    PROVE  Standing /\ Promised' = Promised
BY DEF Standing, Promised

LEMMA SameRemovals ==
    ASSUME IntentInv, service \notin {"down", "recovering"}, chain' = chain, Standing
    PROVE  Removals'
<1>1. \A i \in 1..Len(chain') :
        \E j \in 1..Len(chain) : /\ chain'[i].op = chain[j].op
                                 /\ chain'[i].reg = chain[j].reg
                                 /\ chain'[i].left \subseteq chain[j].left
  OBVIOUS
<1> QED
  BY <1>1, RemovalsKept DEF IntentInv, SubscriptionsInv

\* The four parts of the invariant
Intent == Removals /\ Covered /\ Removed /\ Attended

LEMMA IntentParts ==
    ASSUME IntentInv
    PROVE  /\ Removals /\ Covered /\ Removed /\ Attended /\ SubscriptionsInv
           /\ TypeOK /\ WatchesSound /\ OwnRecords /\ InOrder /\ ChainShape /\ Fresh /\ Heard
           /\ disk \subseteq Registration
BY DEF IntentInv, SubscriptionsInv, TypeOK

LEMMA OwnStepsIntent ==
    ASSUME IntentInv, NEW w \in Watch, OwnSteps(w)
    PROVE  Intent'
<1>1. /\ Removals /\ Covered /\ Removed /\ Attended /\ TypeOK /\ WatchesSound /\ SubscriptionsInv
      /\ disk \subseteq Registration
  BY IntentParts
<1>2. /\ Continue /\ watch[w].at # "none"
      /\ UNCHANGED << service, chain, disk, ahead >>
      /\ UNCHANGED callers /\ UNCHANGED world /\ UNCHANGED history
  BY <1>1, OwnStepContinues
<1>3. service \notin {"down", "recovering"}
  BY <1>1, <1>2, AfterRecovery
<1>4. Standing /\ Promised' = Promised /\ reg' = reg
  BY <1>2, Same DEF callers
<1>5. Removals'
  BY <1>2, <1>3, <1>4, SameRemovals
<1>6. Covered'
  BY <1>1, <1>2, <1>4, CoveredKept DEF Safe, history
<1>7. Removed'
  BY <1>1, <1>2, RemovedKept DEF Continue, Continues, Progress
<1>8. Attended'
  BY <1>1, <1>2, <1>4, AttendedKept DEF Continue, Continues, Progress
<1> QED
  BY <1>5, <1>6, <1>7, <1>8 DEF Intent

LEMMA RemovesIntent ==
    ASSUME IntentInv, NEW w \in Watch, Removes(w)
    PROVE  Intent'
<1>1. /\ Removals /\ Covered /\ Removed /\ Attended /\ TypeOK /\ WatchesSound /\ SubscriptionsInv
      /\ disk \subseteq Registration /\ Heard
  BY IntentParts
<1> DEFINE r == Least(watch[w].left)
<1>2. /\ r \in watch[w].left /\ r \in watch[w].records /\ r \in Registration
      /\ disk' = disk \ {r}
      /\ \A v \in Watch : Progress(watch[v], watch'[v])
      /\ \A v \in Watch : v # w => watch'[v] = watch[v]
      /\ watch'[w].member = watch[w].member /\ watch'[w].left = watch[w].left \ {r}
      /\ dropped' = IF watch[w].acknowledged THEN dropped ELSE dropped \cup {r}
  BY <1>1, RemovesOne
<1> HIDE DEF r
<1>3. /\ UNCHANGED << service, chain, heard, reg >> /\ watch[w].at = "remove"
  BY DEF Removes, callers
<1>4. service \notin {"down", "recovering"}
  BY <1>1, <1>3, AfterRecovery
<1>5. Standing /\ Promised' = Promised
  BY <1>3, Same
<1>6. Removals'
  BY <1>3, <1>4, <1>5, SameRemovals
<1>7. Covered'
  <2>1. watch[w].acknowledged => r \in heard
    BY <1>1, <1>2 DEF Heard, Informed
  <2>2. Safe \subseteq Safe'
    BY <1>2, <1>3, <2>1 DEF Safe
  <2> QED
    BY <1>1, <1>3, <1>5, <2>2, CoveredKept
<1>8. Removed'
  <2>1. \A v \in Watch : watch'[v].records = watch[v].records
    BY <1>2 DEF Progress
  <2>2. ASSUME NEW v \in Watch, watch'[v].at = "remove"
        PROVE  (watch'[v].records \ watch'[v].left) \cap disk' = {}
    <3>1. CASE v = w
      BY <1>1, <1>2, <1>3, <2>1, <3>1 DEF Removed
    <3>2. CASE v # w
      BY <1>1, <1>2, <2>2, <3>2 DEF Removed
    <3> QED
      BY <3>1, <3>2
  <2> QED
    BY <2>2 DEF Removed
<1>9. Attended'
  <2>1. \A v \in Watch : /\ watch'[v].records = watch[v].records
                         /\ watch'[v].member = watch[v].member
    BY <1>2 DEF Progress
  <2> QED
    BY <1>1, <1>2, <1>3, <1>5, <2>1, AttendedKept
<1> QED
  BY <1>6, <1>7, <1>8, <1>9 DEF Intent

\* Nothing that a watch was for is left on disk when it stops for good
LEMMA FinishesIntent ==
    ASSUME IntentInv, NEW w \in Watch, Finishes(w)
    PROVE  Intent'
<1>1. /\ Removals /\ Covered /\ Removed /\ Attended /\ TypeOK /\ WatchesSound /\ SubscriptionsInv
      /\ disk \subseteq Registration
  BY IntentParts
<1>2. /\ \A v \in Watch : Progress(watch[v], watch'[v])
      /\ \A v \in Watch : v # w => watch'[v] = watch[v]
      /\ watch'[w].at = "done"
  BY <1>1, FinishesOne
<1>3. /\ UNCHANGED << service, chain, disk, heard, dropped, reg >>
      /\ watch[w].at = "remove" /\ watch[w].left = {}
  BY DEF Finishes, callers, store, history
<1>4. service \notin {"down", "recovering"}
  BY <1>1, <1>3, AfterRecovery
<1>5. Standing /\ Promised' = Promised
  BY <1>3, Same
<1>6. Removals'
  BY <1>3, <1>4, <1>5, SameRemovals
<1>7. Covered'
  BY <1>1, <1>3, <1>5, CoveredKept DEF Safe
<1>8. Removed'
  BY <1>1, <1>2, <1>3 DEF Removed
<1>9. Attended'
  <2> SUFFICES ASSUME service' = "open", NEW r \in disk',
                      reg'[r] \notin {"stored", "rejected"}, ~Replaced(r)'
               PROVE  \E v \in Watch : r \in watch'[v].records /\ watch'[v].member
    BY DEF Attended
  <2>1. ~Replaced(r)
    BY <1>5 DEF Replaced
  <2>2. PICK v \in Watch : r \in watch[v].records /\ watch[v].member
    BY <1>1, <1>3, <2>1 DEF Attended
  <2>3. v # w
    BY <1>1, <1>3, <2>2 DEF Removed
  <2> QED
    BY <1>2, <2>2, <2>3
<1> QED
  BY <1>6, <1>7, <1>8, <1>9 DEF Intent

LEMMA DispatchesIntent ==
    ASSUME IntentInv, NEW w \in Watch, Dispatches(w)
    PROVE  Intent'
<1>1. /\ Removals /\ Covered /\ Removed /\ Attended /\ TypeOK /\ WatchesSound /\ SubscriptionsInv
      /\ disk \subseteq Registration
  BY IntentParts
<1>2. /\ \A v \in Watch : v # w => watch'[v] = watch[v]
      /\ watch'[w].at = watch[w].at /\ watch[w].at # "none"
      /\ watch'[w].records = watch[w].records /\ watch'[w].member = watch[w].member
      /\ watch'[w].left = watch[w].left
  BY <1>1, DispatchesOne
<1>3. UNCHANGED << service, chain, disk, dropped, reg >> /\ heard \subseteq heard'
  BY DEF Dispatches, callers, store
<1>4. service \notin {"down", "recovering"}
  BY <1>1, <1>2, AfterRecovery
<1>5. Standing /\ Promised' = Promised
  BY <1>3, Same
<1>6. Removals'
  BY <1>3, <1>4, <1>5, SameRemovals
<1>7. Covered'
  BY <1>1, <1>3, <1>5, CoveredKept DEF Safe
<1>8. \A v \in Watch : /\ watch'[v].at = watch[v].at /\ watch'[v].left = watch[v].left
                       /\ watch'[v].records = watch[v].records
                       /\ watch'[v].member = watch[v].member
  BY <1>2
<1>9. Removed'
  BY <1>1, <1>3, <1>8 DEF Removed
<1>10. Attended'
  BY <1>1, <1>3, <1>5, <1>8, AttendedKept
<1> QED
  BY <1>6, <1>7, <1>9, <1>10 DEF Intent

\* A record leaves the disk because a later registration replaced it, or its own was rejected
LEMMA RecordRemovedIntent ==
    ASSUME IntentInv, NEW op \in {"reject", "supersede"}, HeadIs(op), HeadRemoves,
           UNCHANGED << service, watch, faults >>,
           UNCHANGED callers, UNCHANGED world, UNCHANGED history
    PROVE  Intent'
<1> DEFINE r == chain[1].reg
<1> DEFINE x == Least(chain[1].left)
<1>1. /\ Removals /\ Covered /\ Removed /\ Attended /\ TypeOK /\ WatchesSound /\ SubscriptionsInv
      /\ disk \subseteq Registration /\ ChainShape
  BY IntentParts
<1>2. /\ chain # << >> /\ service \notin {"down", "recovering"} /\ 1 \in 1..Len(chain)
      /\ chain[1].op = op /\ r \in Registration /\ chain[1].left \subseteq Registration
  BY <1>1, HeadFacts
<1>3. /\ Len(chain') = Len(chain)
      /\ \A i \in 1..Len(chain) : /\ chain'[i].op = chain[i].op
                                  /\ chain'[i].reg = chain[i].reg
                                  /\ chain'[i].left \subseteq chain[i].left
      /\ disk' = disk \ {x} /\ x \in chain[1].left
  BY <1>1, <1>2, HeadLined
<1>4. UNCHANGED << service, heard, dropped, reg, watch >>
  BY DEF callers, history
<1>5. Standing /\ Promised' = Promised
  BY <1>4, Same
<1>6. Rightful(chain[1], reg)
  BY <1>1, <1>2 DEF Removals
<1> HIDE DEF x
<1> HIDE DEF r
<1>7. Removals'
  BY <1>1, <1>2, <1>3, <1>5, RemovalsKept
<1>8. Covered'
  <2>1. \A z \in Safe : z # x => z \in Safe'
    BY <1>3, <1>4 DEF Safe
  <2> SUFFICES ASSUME NEW q \in Registration,
                      reg[q] \in {"stored", "candidate", "accepted", "created"}
               PROVE  q \in Safe' \/ \E y \in Promised : y > q /\ y \in Safe'
    BY <1>4, <1>5 DEF Covered
  <2>2. q \in Safe \/ \E y \in Promised : y > q /\ y \in Safe
    BY <1>1 DEF Covered
  <2>3. CASE op = "reject"
    <3>1. x = r /\ reg[r] \in {"rejecting", "rejected"}
      BY <1>2, <1>3, <1>6, <2>3 DEF Rightful, r
    <3>2. q # x /\ x \notin Promised
      BY <3>1 DEF Promised
    <3> QED
      BY <2>1, <2>2, <3>2
  <2>4. CASE op = "supersede"
    <3>1. reg[r] \in {"accepted", "created"} /\ x < r
      BY <1>2, <1>3, <1>6, <2>4 DEF Rightful, r
    <3>2. r \in Promised /\ r \in Nat /\ x \in Nat /\ q \in Nat /\ Promised \subseteq Nat
      BY <1>2, <1>3, <3>1, Numbers DEF Promised
    <3>3. PICK z \in Promised : (z = r \/ z > r) /\ z \in Safe
      BY <1>1, <1>2, <3>1, <3>2 DEF Covered
    <3>4. z > x /\ z \in Safe'
      <4>1. z > x /\ z # x
        BY <3>1, <3>2, <3>3
      <4> QED
        BY <2>1, <3>3, <4>1
    <3>5. CASE q \in Safe
      BY <2>1, <3>3, <3>4, <3>5
    <3>6. CASE q \notin Safe
      <4>1. PICK y \in Promised : y > q /\ y \in Safe
        BY <2>2, <3>6
      <4>2. CASE y # x
        BY <2>1, <4>1, <4>2
      <4>3. CASE y = x
        <5>1. z > q
          BY <3>2, <3>4, <4>1, <4>3
        <5> QED
          BY <3>3, <3>4, <5>1
      <4> QED
        BY <4>2, <4>3
    <3> QED
      BY <3>5, <3>6
  <2> QED
    BY <2>3, <2>4
<1>9. Removed'
  BY <1>1, <1>3, <1>4, RemovedKept
<1>10. Attended'
  BY <1>1, <1>3, <1>4, <1>5, AttendedKept
<1> QED
  BY <1>7, <1>8, <1>9, <1>10 DEF Intent

\* The chain is done with its head: nothing is added to it
LEMMA TailRemovals ==
    ASSUME IntentInv, service \notin {"down", "recovering"}, chain # << >>,
           chain' = Tail(chain), Passed, Standing
    PROVE  Removals'
<1>1. \A i \in 1..Len(chain') : i + 1 \in 1..Len(chain) /\ chain'[i] = chain[i + 1]
  BY TailFacts, IntentParts
<1>2. \A i \in 1..Len(chain') :
        \E j \in 1..Len(chain) : /\ chain'[i].op = chain[j].op
                                 /\ chain'[i].reg = chain[j].reg
                                 /\ chain'[i].left \subseteq chain[j].left
  BY <1>1
<1> QED
  BY <1>2, RemovalsKept, IntentParts

LEMMA RegisterThrowsIntent ==
    ASSUME IntentInv, RegisterThrows
    PROVE  Intent'
<1> DEFINE r == Head(chain).reg
<1>1. /\ Removals /\ Covered /\ Removed /\ Attended /\ TypeOK /\ WatchesSound /\ SubscriptionsInv
      /\ disk \subseteq Registration
  BY IntentParts
<1>2. HeadIs("register") /\ "register" # "start"
  BY DEF RegisterThrows
<1>3. /\ chain # << >> /\ Head(chain) = chain[1] /\ r \in Registration
      /\ service \notin {"down", "recovering"}
  BY <1>1, <1>2, HeadFacts
<1>4. /\ reg[r] = "asked" /\ reg' = [reg EXCEPT ![r] = "refused"]
      /\ chain' = Tail(chain) /\ Passed
      /\ UNCHANGED << service, disk, watch, heard, dropped >>
  BY DEF RegisterThrows, history
<1> HIDE DEF r
<1>5. reg'[r] = "refused" /\ \A q \in Registration : q # r => reg'[q] = reg[q]
  BY <1>1, <1>3, <1>4 DEF TypeOK
<1>6. Standing /\ Promised \subseteq Promised'
  BY <1>4, <1>5 DEF Standing, Promised
<1>7. Removals'
  BY <1>3, <1>4, <1>6, TailRemovals
<1>8. Covered'
  <2>1. Safe' = Safe
    BY <1>4 DEF Safe
  <2> QED
    BY <1>1, <1>5, <1>6, <2>1, CoveredKept
<1>9. Removed'
  BY <1>1, <1>4, RemovedKept
<1>10. Attended'
  <2>1. \A q \in disk' : reg'[q] \notin {"stored", "rejected"} => reg[q] \notin {"stored", "rejected"}
    BY <1>1, <1>4, <1>5
  <2> QED
    BY <1>1, <1>4, <1>6, <2>1, AttendedKept
<1> QED
  BY <1>7, <1>8, <1>9, <1>10 DEF Intent

\* The watch that a rejection stops is of the rejected registration alone
LEMMA RejectEndsIntent ==
    ASSUME IntentInv, RejectEnds
    PROVE  Intent'
<1> DEFINE r == Head(chain).reg
<1>1. /\ Removals /\ Covered /\ Removed /\ Attended /\ TypeOK /\ WatchesSound /\ SubscriptionsInv
      /\ disk \subseteq Registration /\ OwnRecords
  BY IntentParts
<1>2. HeadIs("reject") /\ "reject" # "start"
  BY DEF RejectEnds
<1>3. /\ chain # << >> /\ Head(chain) = chain[1] /\ r \in Registration /\ 1 \in 1..Len(chain)
      /\ service \notin {"down", "recovering"} /\ chain[1].op = "reject"
  BY <1>1, <1>2, HeadFacts
<1>4. /\ reg' = [reg EXCEPT ![r] = "rejected"] /\ chain' = Tail(chain) /\ Passed
      /\ UNCHANGED << service, disk, heard, dropped >>
      /\ watch' = Cancelled(watch, {r}, FALSE) \/ watch' = watch
  BY DEF RejectEnds, Stopped, history
<1>5. reg[r] \in {"rejecting", "rejected"}
  BY <1>1, <1>3 DEF Removals, Rightful
<1> HIDE DEF r
<1>6. reg'[r] = "rejected" /\ \A q \in Registration : q # r => reg'[q] = reg[q]
  BY <1>1, <1>3, <1>4 DEF TypeOK
<1>7. Standing /\ Promised \subseteq Promised'
  BY <1>5, <1>6 DEF Standing, Promised
<1>8. /\ \A w \in Watch : Progress(watch[w], watch'[w])
      /\ \A w \in Watch : watch'[w].at = watch[w].at /\ watch'[w].left = watch[w].left
      /\ \A w \in Watch : w # r => watch'[w] = watch[w]
  <2>1. CASE watch' = Cancelled(watch, {r}, FALSE)
    <3>1. StopsTo(watch, {r}, FALSE, watch')
      BY <1>1, <2>1, StoppedProgress
    <3> QED
      BY <3>1 DEF StopsTo
  <2>2. CASE watch' = watch
    BY <1>1, <2>2, SameProgress
  <2> QED
    BY <1>4, <2>1, <2>2
<1>9. Removals'
  BY <1>3, <1>4, <1>7, TailRemovals
<1>10. Covered'
  <2>1. Safe' = Safe
    BY <1>4 DEF Safe
  <2> QED
    BY <1>1, <1>6, <1>7, <2>1, CoveredKept
<1>11. Removed'
  BY <1>1, <1>4, <1>8, RemovedKept DEF Progress
<1>12. Attended'
  <2> SUFFICES ASSUME service' = "open", NEW q \in disk',
                      reg'[q] \notin {"stored", "rejected"}, ~Replaced(q)'
               PROVE  \E v \in Watch : q \in watch'[v].records /\ watch'[v].member
    BY DEF Attended
  <2>1. q # r /\ q \in disk /\ reg[q] \notin {"stored", "rejected"} /\ ~Replaced(q)
    BY <1>1, <1>4, <1>6, <1>7 DEF Replaced
  <2>2. PICK v \in Watch : q \in watch[v].records /\ watch[v].member
    BY <1>1, <1>4, <2>1 DEF Attended
  <2>3. v # r
    BY <1>1, <1>3, <2>1, <2>2 DEF OwnRecords
  <2> QED
    BY <1>8, <2>2, <2>3
<1> QED
  BY <1>9, <1>10, <1>11, <1>12 DEF Intent

LEMMA SupersedeEndsIntent ==
    ASSUME IntentInv, SupersedeEnds
    PROVE  Intent'
<1>1. /\ Removals /\ Covered /\ Removed /\ Attended /\ SubscriptionsInv /\ disk \subseteq Registration
  BY IntentParts
<1>2. HeadIs("supersede") /\ "supersede" # "start"
  BY DEF SupersedeEnds
<1>3. chain # << >> /\ service \notin {"down", "recovering"}
  BY <1>1, <1>2, HeadFacts
<1>4. /\ chain' = Tail(chain) /\ Passed
      /\ UNCHANGED << service, disk, watch, reg, heard, dropped >>
  BY DEF SupersedeEnds, callers, history
<1>5. Standing /\ Promised' = Promised
  BY <1>4, Same
<1>6. Removals'
  BY <1>3, <1>4, <1>5, TailRemovals
<1>7. Covered'
  BY <1>1, <1>4, <1>5, CoveredKept DEF Safe
<1>8. Removed'
  BY <1>1, <1>4, RemovedKept
<1>9. Attended'
  BY <1>1, <1>4, <1>5, AttendedKept
<1> QED
  BY <1>6, <1>7, <1>8, <1>9 DEF Intent

\* A new registration is on no disk, and one that is stored has no watch yet
LEMMA RegisterIntent ==
    ASSUME IntentInv, NEW r \in Registration, Register(r)
    PROVE  Intent'
<1>1. /\ Removals /\ Covered /\ Removed /\ Attended /\ TypeOK /\ SubscriptionsInv
      /\ disk \subseteq Registration /\ InOrder /\ ChainShape /\ chain \in Seq(Mutations)
      /\ Len(chain) \in Nat
  BY IntentParts DEF TypeOK
<1> DEFINE e == [op |-> "register", reg |-> r, left |-> {}]
<1>2. /\ reg[r] = "new" /\ reg' = [reg EXCEPT ![r] = "asked"]
      /\ chain' = Append(chain, e)
      /\ UNCHANGED << service, disk, watch, heard, dropped >>
      /\ service \notin {"down", "recovering"}
  BY DEF Register, Appended, history, Closed
<1>3. e.op = "register"
  OBVIOUS
<1> HIDE DEF e
<1>4. reg'[r] = "asked" /\ \A q \in Registration : q # r => reg'[q] = reg[q]
  BY <1>1, <1>2 DEF TypeOK
<1>5. Standing /\ Promised \subseteq Promised'
  BY <1>2, <1>4 DEF Standing, Promised
<1>6. \A i \in 1..Len(chain') : (i \in 1..Len(chain) /\ chain'[i] = chain[i]) \/ chain'[i] = e
  BY <1>1, <1>2
<1>7. Removals'
  <2>1. Rightful(e, reg')
    BY <1>3 DEF Rightful
  <2>2. \A i \in 1..Len(chain') :
          \/ Rightful(chain'[i], reg')
          \/ \E j \in 1..Len(chain) : /\ chain'[i].op = chain[j].op
                                      /\ chain'[i].reg = chain[j].reg
                                      /\ chain'[i].left \subseteq chain[j].left
    BY <1>6, <2>1
  <2> QED
    BY <1>1, <1>2, <1>5, <2>2, RemovalsKept
<1>8. Covered'
  <2>1. Safe' = Safe
    BY <1>2 DEF Safe
  <2> QED
    BY <1>1, <1>4, <1>5, <2>1, CoveredKept
<1>9. Removed'
  BY <1>1, <1>2, RemovedKept
<1>10. Attended'
  <2>1. \A q \in disk' : reg'[q] \notin {"stored", "rejected"} => reg[q] \notin {"stored", "rejected"}
    BY <1>1, <1>2, <1>4
  <2> QED
    BY <1>1, <1>2, <1>5, <2>1, AttendedKept
<1> QED
  BY <1>7, <1>8, <1>9, <1>10 DEF Intent

LEMMA RegisterStoresIntent ==
    ASSUME IntentInv, RegisterStores
    PROVE  Intent'
<1> DEFINE r == Head(chain).reg
<1>1. /\ Removals /\ Covered /\ Removed /\ Attended /\ TypeOK /\ SubscriptionsInv
      /\ disk \subseteq Registration
  BY IntentParts
<1>2. HeadIs("register") /\ "register" # "start"
  BY DEF RegisterStores
<1>3. r \in Registration /\ service \notin {"down", "recovering"}
  BY <1>1, <1>2, HeadFacts
<1>4. /\ reg[r] = "asked" /\ reg' = [reg EXCEPT ![r] = "stored"] /\ disk' = disk \cup {r}
      /\ UNCHANGED << service, chain, watch, heard, dropped >>
  BY DEF RegisterStores, history
<1> HIDE DEF r
<1>5. reg'[r] = "stored" /\ \A q \in Registration : q # r => reg'[q] = reg[q]
  BY <1>1, <1>3, <1>4 DEF TypeOK
<1>6. Standing /\ Promised \subseteq Promised'
  BY <1>4, <1>5 DEF Standing, Promised
<1>7. Removals'
  BY <1>3, <1>4, <1>6, SameRemovals
<1>8. Covered'
  <2>1. Safe \subseteq Safe' /\ r \in Safe'
    BY <1>4 DEF Safe
  <2> QED
    BY <1>1, <1>5, <1>6, <2>1, CoveredKept
<1>9. Removed'
  <2>1. \A w \in Watch : r \notin watch[w].records
    BY <1>1, <1>4, RecordKnown
  <2> QED
    BY <1>1, <1>4, <2>1 DEF Removed
<1>10. Attended'
  <2> SUFFICES ASSUME service' = "open", NEW q \in disk',
                      reg'[q] \notin {"stored", "rejected"}, ~Replaced(q)'
               PROVE  \E v \in Watch : q \in watch'[v].records /\ watch'[v].member
    BY DEF Attended
  <2>1. q # r /\ q \in disk /\ reg[q] \notin {"stored", "rejected"} /\ ~Replaced(q)
    BY <1>1, <1>4, <1>5, <1>6 DEF Replaced
  <2> QED
    BY <1>1, <1>4, <2>1 DEF Attended
<1> QED
  BY <1>7, <1>8, <1>9, <1>10 DEF Intent

\* A record of a watch older than r is replaced when r is accepted
LEMMA Older ==
    ASSUME SubscriptionsInv, NEW r \in Registration,
           reg[r] \in {"stored", "candidate"},
           NEW v \in Watch, v < r, NEW q \in watch[v].records
    PROVE  q \in Registration /\ q < r
<1>1. q \in Registration
  BY RecordKnown
<1>2. CASE v \in Registration
  BY <1>1, <1>2 DEF SubscriptionsInv, OwnRecords
<1>3. CASE v = Recovered
  BY <1>1, <1>3 DEF SubscriptionsInv, InOrder
<1> QED
  BY <1>1, <1>2, <1>3, Numbers

LEMMA AcceptIntent ==
    ASSUME IntentInv, NEW r \in Registration, Accept(r)
    PROVE  Intent'
<1>1. /\ Removals /\ Covered /\ Removed /\ Attended /\ TypeOK /\ SubscriptionsInv
      /\ disk \subseteq Registration /\ InOrder /\ ChainShape /\ Fresh /\ WatchesSound
  BY IntentParts
<1>2. AllSound(watch) /\ watch \in [Watch -> WatchTypes]
  BY <1>1 DEF AllSound, TypeOK, WatchesSound
<1>3. /\ reg[r] = "candidate" /\ service # "down"
      /\ reg' = [reg EXCEPT ![r] = "accepted"]
      /\ watch' = Accepting(watch, r, priors[r])
      /\ chain' = Superseding(watch, r, priors[r], chain)
      /\ UNCHANGED << service, disk, heard, dropped >>
  BY DEF Accept, Up, history
<1>4. service \notin {"down", "recovering"}
  BY <1>1, <1>3 DEF Fresh
<1>5. reg'[r] = "accepted" /\ \A q \in Registration : q # r => reg'[q] = reg[q]
  BY <1>1, <1>3 DEF TypeOK
<1>6. Standing /\ Promised \subseteq Promised' /\ r \in Promised'
  BY <1>3, <1>5 DEF Standing, Promised
<1>7. AcceptsTo(watch, priors[r], watch')
  BY <1>2, <1>3, AcceptsWatches
<1>8. priors[r] \in SUBSET Watch /\ \A v \in priors[r] : v < r
  BY <1>1 DEF TypeOK, InOrder
<1> DEFINE left == RecordsOf(watch, priors[r])
<1>9. \A q \in left : q \in Registration /\ q < r
  <2> SUFFICES ASSUME NEW v \in priors[r], NEW q \in watch[v].records
               PROVE  q \in Registration /\ q < r
    BY DEF RecordsOf
  <2> QED
    BY <1>1, <1>3, <1>8, Older
<1> DEFINE e == [op |-> "supersede", reg |-> r, left |-> left]
<1>10. chain' = chain \/ chain' = Append(chain, e)
  BY <1>3 DEF Superseding, Appended
<1>11. Rightful(e, reg')
  BY <1>5, <1>9 DEF Rightful
<1> HIDE DEF e, left
<1>12. Removals'
  <2>1. chain \in Seq(Mutations) /\ Len(chain) \in Nat
    BY <1>1 DEF TypeOK
  <2>2. \A i \in 1..Len(chain') : (i \in 1..Len(chain) /\ chain'[i] = chain[i]) \/ chain'[i] = e
    BY <1>10, <2>1
  <2>3. \A i \in 1..Len(chain') :
          \/ Rightful(chain'[i], reg')
          \/ \E j \in 1..Len(chain) : /\ chain'[i].op = chain[j].op
                                      /\ chain'[i].reg = chain[j].reg
                                      /\ chain'[i].left \subseteq chain[j].left
    BY <1>11, <2>2
  <2> QED
    BY <1>1, <1>4, <1>6, <2>3, RemovalsKept
<1>13. Covered'
  <2>1. Safe' = Safe
    BY <1>3 DEF Safe
  <2>2. \A q \in Registration :
          reg'[q] \in {"stored", "candidate", "accepted", "created"} =>
             reg[q] \in {"stored", "candidate", "accepted", "created"}
    BY <1>3, <1>5
  <2> QED
    BY <1>1, <1>6, <2>1, <2>2, CoveredKept
<1>14. Removed'
  <2>1. \A w \in Watch : /\ watch'[w].records = watch[w].records
                         /\ watch'[w].at = watch[w].at /\ watch'[w].left = watch[w].left
    BY <1>7 DEF AcceptsTo, Progress
  <2> QED
    BY <1>1, <1>3, <2>1, RemovedKept
<1>15. Attended'
  <2> SUFFICES ASSUME service' = "open", NEW q \in disk',
                      reg'[q] \notin {"stored", "rejected"}, ~Replaced(q)'
               PROVE  \E v \in Watch : q \in watch'[v].records /\ watch'[v].member
    BY DEF Attended
  <2>1. /\ q \in disk /\ reg[q] \notin {"stored", "rejected"} /\ ~Replaced(q) /\ ~(r > q)
    BY <1>1, <1>3, <1>5, <1>6 DEF Replaced
  <2>2. PICK v \in Watch : q \in watch[v].records /\ watch[v].member
    BY <1>1, <1>3, <2>1 DEF Attended
  <2>3. v \notin priors[r]
    <3>1. SUFFICES ASSUME v \in priors[r] PROVE FALSE
      OBVIOUS
    <3>2. q < r
      BY <1>1, <1>3, <1>8, <2>2, <3>1, Older
    <3> QED
      BY <2>1, <3>2
  <2> QED
    BY <1>7, <2>2, <2>3 DEF AcceptsTo, Progress
<1> QED
  BY <1>12, <1>13, <1>14, <1>15 DEF Intent

LEMMA RejectIntent ==
    ASSUME IntentInv, ~LateReject, NEW r \in Registration, Reject(r)
    PROVE  Intent'
<1>1. /\ Removals /\ Covered /\ Removed /\ Attended /\ TypeOK /\ SubscriptionsInv
      /\ disk \subseteq Registration /\ ChainShape /\ Fresh /\ OwnRecords
      /\ chain \in Seq(Mutations) /\ Len(chain) \in Nat
  BY IntentParts DEF TypeOK
<1> DEFINE e == [op |-> "reject", reg |-> r, left |-> watch[r].records]
<1>2. /\ reg[r] = "candidate" /\ service # "down"
      /\ reg' = [reg EXCEPT ![r] = "rejecting"]
      /\ chain' = Append(chain, e)
      /\ UNCHANGED << service, disk, watch, heard, dropped >>
  BY DEF Reject, Up, Appended, history
<1>3. service \notin {"down", "recovering"}
  BY <1>1, <1>2 DEF Fresh
<1>4. reg'[r] = "rejecting" /\ \A q \in Registration : q # r => reg'[q] = reg[q]
  BY <1>1, <1>2 DEF TypeOK
<1>5. Standing /\ Promised \subseteq Promised'
  BY <1>2, <1>4 DEF Standing, Promised
<1>6. Rightful(e, reg')
  BY <1>1, <1>4 DEF Rightful, OwnRecords
<1> HIDE DEF e
<1>7. Removals'
  <2>1. \A i \in 1..Len(chain') : (i \in 1..Len(chain) /\ chain'[i] = chain[i]) \/ chain'[i] = e
    BY <1>1, <1>2
  <2>2. \A i \in 1..Len(chain') :
          \/ Rightful(chain'[i], reg')
          \/ \E j \in 1..Len(chain) : /\ chain'[i].op = chain[j].op
                                      /\ chain'[i].reg = chain[j].reg
                                      /\ chain'[i].left \subseteq chain[j].left
    BY <1>6, <2>1
  <2> QED
    BY <1>1, <1>3, <1>5, <2>2, RemovalsKept
<1>8. Covered'
  <2>1. Safe' = Safe
    BY <1>2 DEF Safe
  <2> QED
    BY <1>1, <1>4, <1>5, <2>1, CoveredKept
<1>9. Removed'
  BY <1>1, <1>2, RemovedKept
<1>10. Attended'
  <2>1. \A q \in disk' : reg'[q] \notin {"stored", "rejected"} => reg[q] \notin {"stored", "rejected"}
    BY <1>1, <1>2, <1>4
  <2> QED
    BY <1>1, <1>2, <1>5, <2>1, AttendedKept
<1> QED
  BY <1>7, <1>8, <1>9, <1>10 DEF Intent

\* The watches that r replaces are of records older than r
LEMMA AttachesIntent ==
    ASSUME IntentInv, NEW now \in BOOLEAN, RegisterAttaches(now)
    PROVE  Intent'
<1> DEFINE r == chain[1].reg
<1> DEFINE prior == Group(watch)
<1> DEFINE ws == Attach(watch, r, {r}, TRUE)
<1>1. /\ Removals /\ Covered /\ Removed /\ Attended /\ TypeOK /\ SubscriptionsInv
      /\ disk \subseteq Registration /\ ChainShape /\ WatchesSound
  BY IntentParts
<1>2. /\ r \in Registration /\ reg[r] = "stored" /\ service \notin {"down", "recovering"}
      /\ Head(chain) = chain[1]
      /\ \A w \in Watch : watch[w].at # "none" => w < r
      /\ \A w \in prior : w < r
      /\ AttachesTo(watch, r, {r}, TRUE, ws)
      /\ now => AcceptsTo(ws, prior, watch')
      /\ ~now => watch' = ws
      /\ Attached(r)
  BY <1>1, AttachesOne
<1>3. /\ reg' = [reg EXCEPT ![r] = IF now THEN "created" ELSE "candidate"]
      /\ UNCHANGED << service, disk, heard, dropped >>
  BY <1>2 DEF RegisterAttaches, history
<1> DEFINE left == RecordsOf(ws, prior)
<1> DEFINE e == [op |-> "supersede", reg |-> r, left |-> left]
<1>4. \A i \in 1..Len(chain') :
        (i + 1 \in 1..Len(chain) /\ chain'[i] = chain[i + 1]) \/ (now /\ chain'[i] = e)
  BY <1>1, AttachesChain
<1>5. prior = {w \in Watch : watch[w].member} /\ prior \in SUBSET Watch
  BY DEF Group
<1> HIDE DEF e, left, ws, prior, r
<1>6. r \in Watch /\ ~(r < r) /\ r \in Nat
  <2>1. r \in Watch /\ r \in Nat
    BY <1>2, Numbers
  <2> QED
    BY <2>1
<1>7. /\ reg'[r] = IF now THEN "created" ELSE "candidate"
      /\ \A q \in Registration : q # r => reg'[q] = reg[q]
  BY <1>1, <1>2, <1>3 DEF TypeOK
<1>8. Standing /\ Promised \subseteq Promised' /\ (now => r \in Promised')
  BY <1>2, <1>7 DEF Standing, Promised
<1>9. \A v \in prior : v \in Watch /\ v # r /\ ws[v] = watch[v]
  BY <1>2, <1>5, <1>6 DEF AttachesTo
<1>10. \A v \in prior : \A q \in watch[v].records : q \in Registration /\ q < r
  BY <1>1, <1>2, <1>9, Older
<1>11. Removals'
  <2>1. \A q \in left : q < r
    BY <1>9, <1>10 DEF left, RecordsOf
  <2>2. now => Rightful(e, reg')
    BY <1>7, <2>1 DEF Rightful, e
  <2>3. \A i \in 1..Len(chain') :
          \/ Rightful(chain'[i], reg')
          \/ \E j \in 1..Len(chain) : /\ chain'[i].op = chain[j].op
                                      /\ chain'[i].reg = chain[j].reg
                                      /\ chain'[i].left \subseteq chain[j].left
    BY <1>4, <2>2
  <2> QED
    BY <1>1, <1>2, <1>8, <2>3, RemovalsKept
<1>12. Covered'
  <2>1. Safe' = Safe
    BY <1>3 DEF Safe
  <2>2. \A q \in Registration :
          reg'[q] \in {"stored", "candidate", "accepted", "created"} =>
             reg[q] \in {"stored", "candidate", "accepted", "created"}
    BY <1>2, <1>7
  <2> QED
    BY <1>1, <1>8, <2>1, <2>2, CoveredKept
<1>13. \A w \in Watch : watch'[w].at = ws[w].at /\ watch'[w].left = ws[w].left
  BY <1>2 DEF AcceptsTo
<1>14. Removed'
  <2>1. ASSUME NEW w \in Watch, watch'[w].at = "remove"
        PROVE  /\ watch'[w].records = watch[w].records
               /\ watch[w].at = "remove" /\ watch'[w].left = watch[w].left
    <3>1. w # r
      BY <1>2, <1>13, <2>1 DEF AttachesTo
    <3>2. ws[w] = watch[w]
      BY <1>2, <3>1 DEF AttachesTo
    <3> QED
      BY <1>2, <1>13, <2>1, <3>1, <3>2 DEF Attached
  <2> QED
    BY <1>1, <1>3, <2>1, RemovedKept
<1>15. Attended'
  <2> SUFFICES ASSUME service' = "open", NEW q \in disk',
                      reg'[q] \notin {"stored", "rejected"}, ~Replaced(q)'
               PROVE  \E v \in Watch : q \in watch'[v].records /\ watch'[v].member
    BY DEF Attended
  <2>1. CASE q = r
    <3>1. ws[r].member = TRUE
      <4>1. ws[r] \in WatchTypes
        BY <1>2, <1>6 DEF AttachesTo
      <4>2. ws[r].member \in BOOLEAN
        BY <4>1, Fields
      <4> QED
        BY <1>2, <4>2 DEF AttachesTo
    <3>2. r \notin prior
      BY <1>9
    <3>3. watch'[r].member = ws[r].member
      BY <1>2, <1>6, <3>2 DEF AcceptsTo
    <3>4. watch'[r].records = {r}
      BY <1>2, <1>6 DEF Attached
    <3> QED
      BY <1>6, <2>1, <3>1, <3>3, <3>4
  <2>2. CASE q # r
    <3>1. /\ q \in disk /\ reg[q] \notin {"stored", "rejected"} /\ ~Replaced(q)
          /\ now => ~(r > q)
      BY <1>1, <1>3, <1>7, <1>8, <2>2 DEF Replaced
    <3>2. PICK v \in Watch : q \in watch[v].records /\ watch[v].member
      BY <1>1, <1>3, <3>1 DEF Attended
    <3>3. v \in prior
      BY <1>5, <3>2
    <3>4. q < r /\ v # r /\ ws[v] = watch[v]
      BY <1>9, <1>10, <3>2, <3>3
    <3>5. ~now
      BY <3>1, <3>4
    <3> QED
      BY <1>2, <3>2, <3>4, <3>5
  <2> QED
    BY <2>1, <2>2
<1> QED
  BY <1>11, <1>12, <1>14, <1>15 DEF Intent

LEMMA StartIntent ==
    ASSUME IntentInv, Start
    PROVE  Intent'
<1>1. /\ Removals /\ Covered /\ Removed /\ Attended /\ TypeOK /\ SubscriptionsInv
      /\ disk \subseteq Registration /\ ChainShape /\ WatchesSound /\ Fresh
  BY IntentParts
<1>2. HeadIs("start")
  BY DEF Start
<1>3. /\ chain # << >> /\ 1 \in 1..Len(chain) /\ chain[1].op = "start" /\ service = "recovering"
  BY <1>1, <1>2, HeadFacts DEF ChainShape
<1>4. /\ watch' = (IF disk = {} THEN watch ELSE Attach(watch, Recovered, disk, FALSE))
      /\ chain' = Tail(chain)
      /\ UNCHANGED << disk, reg, heard, dropped >>
  BY DEF Start, callers, history
<1>5. \A w \in Watch : watch[w] = NoWatch
  BY <1>1, <1>3 DEF Fresh
<1>6. disk # {} => AttachesTo(watch, Recovered, disk, FALSE, watch')
  <2>1. /\ watch \in [Watch -> WatchTypes] /\ Recovered \in Watch /\ disk \in SUBSET Registration
        /\ FALSE \in BOOLEAN
    BY <1>1, Numbers DEF TypeOK
  <2>2. AttachesTo(watch, Recovered, disk, FALSE, Attach(watch, Recovered, disk, FALSE))
    BY <2>1, Attaches
  <2> QED
    BY <1>4, <2>2
<1>7. Promised' = Promised /\ Safe' = Safe
  BY <1>4 DEF Promised, Safe
<1>8. Removals'
  <2>1. chain \in Seq(Mutations) /\ Lined(chain, reg)
    BY <1>1 DEF TypeOK, ChainShape
  <2>2. \A i \in 1..Len(chain') : /\ i + 1 \in 1..Len(chain) /\ chain'[i] = chain[i + 1]
                                  /\ chain'[i].op # "start"
    BY <1>3, <1>4, <2>1, TailLined
  <2>3. \A i \in 1..Len(chain) : chain[i].op = "start"
    BY <1>1, <1>3 DEF Fresh
  <2> QED
    BY <2>2, <2>3 DEF Removals
<1>9. Covered'
  BY <1>1, <1>4, <1>7, CoveredKept
<1>10. \A w \in Watch : watch'[w].at # "remove"
  <2>1. NoWatch.at = "none"
    BY DEF NoWatch
  <2>2. CASE disk = {}
    BY <1>4, <1>5, <2>1, <2>2
  <2>3. CASE disk # {}
    <3>1. \A w \in Watch : w # Recovered => watch'[w] = NoWatch
      BY <1>5, <1>6, <2>3 DEF AttachesTo
    <3> QED
      BY <1>6, <2>1, <2>3, <3>1 DEF AttachesTo
  <2> QED
    BY <2>2, <2>3
<1>11. Removed'
  BY <1>10 DEF Removed
<1>12. Attended'
  <2> SUFFICES ASSUME NEW r \in disk'
               PROVE  \E w \in Watch : r \in watch'[w].records /\ watch'[w].member
    BY DEF Attended
  <2>1. disk # {} /\ r \in disk
    BY <1>4
  <2> QED
    BY <1>6, <2>1, Numbers DEF AttachesTo
<1> QED
  BY <1>8, <1>9, <1>11, <1>12 DEF Intent

LEMMA ForgetsIntent ==
    ASSUME IntentInv, Forgets
    PROVE  Intent'
<1>1. /\ Covered /\ TypeOK
  BY IntentParts
<1>2. /\ service' = "down" /\ chain' = << >>
      /\ watch' = [w \in Watch |-> NoWatch]
      /\ reg' = [r \in Registration |->
            IF reg[r] \in {"asked", "stored", "candidate", "rejecting"} THEN "orphan" ELSE reg[r]]
      /\ UNCHANGED << disk, heard, dropped >>
  BY DEF Forgets, history
<1>3. Promised \subseteq Promised' /\ Safe' = Safe
  BY <1>1, <1>2 DEF Promised, Safe
<1>4. \A r \in Registration :
        reg'[r] \in {"stored", "candidate", "accepted", "created"} =>
           reg[r] \in {"stored", "candidate", "accepted", "created"}
  BY <1>2
<1>5. Covered'
  BY <1>1, <1>3, <1>4, CoveredKept
<1>6. Removals'
  BY <1>2 DEF Removals
<1>7. Removed'
  <2>1. \A w \in Watch : watch'[w].at = "none"
    BY <1>2 DEF NoWatch
  <2> QED
    BY <2>1 DEF Removed
<1>8. Attended'
  BY <1>2 DEF Attended
<1> QED
  BY <1>5, <1>6, <1>7, <1>8 DEF Intent

\* The service opens, closes or stops, and no record moves
LEMMA ServiceIntent ==
    ASSUME IntentInv, Boot \/ Close \/ CloseReturns \/ CloseAborts
    PROVE  Intent'
<1>1. /\ Removals /\ Covered /\ Removed /\ Attended /\ TypeOK /\ WatchesSound
  BY IntentParts
<1>2. /\ service' # "open"
      /\ UNCHANGED << disk, reg, heard, dropped >>
  BY DEF Boot, Close, CloseReturns, CloseAborts, store, callers, history
<1>3. \A w \in Watch : /\ watch'[w].records = watch[w].records
                       /\ watch'[w].at = watch[w].at /\ watch'[w].left = watch[w].left
  <2>1. CASE Boot \/ Close \/ CloseReturns
    BY <2>1 DEF Boot, Close, CloseReturns
  <2>2. CASE CloseAborts
    <3>1. watch' = Cancelled(watch, Group(watch), TRUE)
      BY <2>2 DEF CloseAborts
    <3>2. StopsTo(watch, Group(watch), TRUE, watch')
      BY <1>1, <3>1, StoppedProgress
    <3> QED
      BY <3>2 DEF StopsTo, Progress
  <2> QED
    BY <2>1, <2>2
<1>4. Covered'
  <2>1. Promised' = Promised /\ Safe' = Safe
    BY <1>2 DEF Promised, Safe
  <2> QED
    BY <1>1, <1>2, <2>1, CoveredKept
<1>5. Removed'
  BY <1>1, <1>2, <1>3, RemovedKept
<1>6. Attended'
  BY <1>2 DEF Attended
<1>7. Removals'
  <2>1. CASE Boot
    <3> DEFINE e == [op |-> "start", reg |-> Recovered, left |-> {}]
    <3>1. chain' = Append(<< >>, e)
      BY <2>1 DEF Boot, Appended
    <3>2. Rightful(e, reg')
      BY DEF Rightful
    <3> HIDE DEF e
    <3>3. \A i \in 1..Len(chain') : chain'[i] = e
      BY <3>1
    <3> QED
      BY <3>2, <3>3 DEF Removals
  <2>2. CASE Close \/ CloseReturns \/ CloseAborts
    BY <1>1, <1>2, <2>2 DEF Close, CloseReturns, CloseAborts, store, Removals
  <2> QED
    BY <2>1, <2>2
<1> QED
  BY <1>4, <1>5, <1>6, <1>7 DEF Intent

LEMMA WorldIntent ==
    ASSUME IntentInv,
           UNCHANGED << service, disk, chain, reg, watch, heard, dropped >>
    PROVE  Intent'
BY DEF IntentInv, Intent, Removals, Covered, Removed, Attended, Promised, Safe, Replaced

LEMMA NextIntent ==
    ASSUME IntentInv, ~LateReject, [Next]_vars
    PROVE  Intent'
<1>1. CASE Crash \/ Exit
  BY <1>1, ForgetsIntent DEF Crash, Exit
<1>2. CASE Boot \/ Close \/ CloseReturns \/ CloseAborts
  BY <1>2, ServiceIntent
<1>3. CASE Start
  BY <1>3, StartIntent
<1>4. CASE RegisterStores
  BY <1>4, RegisterStoresIntent
<1>5. CASE RegisterThrows
  BY <1>5, RegisterThrowsIntent
<1>6. CASE \E now \in BOOLEAN : RegisterAttaches(now)
  BY <1>6, AttachesIntent
<1>7. CASE RejectRemoves \/ SupersedeRemoves
  BY <1>7, RecordRemovedIntent DEF RejectRemoves, SupersedeRemoves
<1>8. CASE RejectEnds \/ SupersedeEnds
  BY <1>8, RejectEndsIntent, SupersedeEndsIntent
<1>9. CASE \E r \in Registration : Register(r) \/ Accept(r) \/ Reject(r)
  BY <1>9, RegisterIntent, AcceptIntent, RejectIntent
<1>10. CASE \E w \in Watch : Runs(w) \/ Hears(w)
  BY <1>10, WatchCases, OwnStepsIntent, RemovesIntent, FinishesIntent, DispatchesIntent
<1>11. CASE CallerArchived \/ ChildDetached \/ UNCHANGED vars
  BY <1>11, WorldIntent DEF CallerArchived, ChildDetached, vars, store, callers, history
<1> QED
  BY <1>1, <1>2, <1>3, <1>4, <1>5, <1>6, <1>7, <1>8, <1>9, <1>10, <1>11
     DEF Next, Mutates, Closes

LEMMA InitIntent ==
    ASSUME Init
    PROVE  IntentInv
<1>1. SubscriptionsInv
  BY InitHolds
<1>2. /\ chain = << >> /\ disk = {} /\ reg = [r \in Registration |-> "new"]
      /\ watch = [w \in Watch |-> NoWatch] /\ NoWatch.at = "none"
  BY DEF Init, NoWatch
<1> QED
  BY <1>1, <1>2 DEF IntentInv, Removals, Covered, Removed, Attended

\* What the chain removes, and who attends to what is left, when rejections are not late
THEOREM IntentInvHolds ==
    ASSUME ~LateReject
    PROVE  Spec => []IntentInv
<1>1. Init => IntentInv
  BY InitIntent
<1>2. IntentInv /\ [Next]_vars => IntentInv'
  BY NextIntent, NextKeeps DEF IntentInv, Intent
<1> QED
  BY <1>1, <1>2, PTL DEF Spec

\* An accepted registration is on disk unless its caller was told or must not be told, it or a
\* later one: neither a crash, nor a failure, nor a rejected candidate loses it
THEOREM IntentKeptHolds ==
    ASSUME ~LateReject
    PROVE  Spec => []IntentKept
<1>1. ASSUME IntentInv PROVE IntentKept
  <2> SUFFICES ASSUME NEW r \in Promised PROVE Kept(r)
    BY DEF IntentKept
  <2>1. r \in Registration /\ reg[r] \in {"accepted", "created"} /\ r \in Nat
    BY Numbers DEF Promised
  <2>2. r \in Safe \/ \E q \in Promised : q > r /\ q \in Safe
    BY <1>1, <2>1 DEF IntentInv, Covered
  <2>3. Promised \subseteq Nat
    BY Numbers DEF Promised
  <2>4. PICK q \in Promised : q >= r /\ q \in Safe
    BY <2>1, <2>2, <2>3
  <2> QED
    BY <2>4 DEF Kept, Safe
<1> QED
  BY <1>1, IntentInvHolds, PTL

\* A caller with an open record is protected from idle collection, in every window of
\* registration, recovery and delivery
THEOREM OpenIsProtectedHolds ==
    ASSUME ~LateReject
    PROVE  Spec => []OpenIsProtected
<1>1. ASSUME IntentInv PROVE OpenIsProtected
  <2> SUFFICES ASSUME service = "open", NEW r \in Registration, Open(r)
               PROVE  HasPending
    BY DEF OpenIsProtected, HasPending
  <2>1. r \in disk /\ reg[r] # "rejected" /\ ~Replaced(r)
    BY DEF Open
  <2>2. CASE reg[r] = "stored"
    BY <2>2 DEF HasPending
  <2>3. CASE reg[r] # "stored"
    <3>1. PICK w \in Watch : r \in watch[w].records /\ watch[w].member
      BY <1>1, <2>1, <2>3 DEF IntentInv, Attended
    <3> QED
      BY <3>1 DEF HasPending, Group
  <2> QED
    BY <2>2, <2>3
<1> QED
  BY <1>1, IntentInvHolds, PTL

-----------------------------------------------------------------------------
(***************************************************************************)
(* What the notices say                                                    *)
(***************************************************************************)

Among(x, s) == \E i \in 1..Len(s) : s[i] = x

LEMMA LeastNatural ==
    ASSUME NEW S \in SUBSET Nat, S # {}
    PROVE  \E n \in S : \A m \in S : n <= m
<1> DEFINE Less == OpToRel(<, Nat)
<1>1. IsWellFoundedOn(Less, Nat)
  BY NatLessThanWellFounded
<1> HIDE DEF Less
<1>2. PICK n \in S : \A m \in S : ~(<<m, n>> \in Less)
  BY <1>1, WFMin
<1>3. \A m \in Nat, k \in Nat : m < k => <<m, k>> \in Less
  BY DEF Less, OpToRel
<1>4. ASSUME NEW m \in S PROVE n <= m
  <2>1. m \in Nat /\ n \in Nat /\ ~(m < n)
    BY <1>2, <1>3
  <2> QED
    BY <2>1
<1> QED
  BY <1>4

LEMMA AppendIs ==
    ASSUME NEW S, NEW s \in Seq(S), NEW x \in S
    PROVE  /\ Append(s, x) \in Seq(S) /\ Len(Append(s, x)) = Len(s) + 1 /\ Len(s) \in Nat
           /\ \A i \in 1..Len(s) : Append(s, x)[i] = s[i]
           /\ Append(s, x)[Len(s) + 1] = x
           /\ \A y : Among(y, Append(s, x)) <=> Among(y, s) \/ y = x
<1>1. /\ Append(s, x) \in Seq(S) /\ Len(Append(s, x)) = Len(s) + 1 /\ Len(s) \in Nat
      /\ \A i \in 1..Len(s) : Append(s, x)[i] = s[i]
      /\ Append(s, x)[Len(s) + 1] = x
  OBVIOUS
<1>2. \A i \in 1..Len(s) + 1 : i \in 1..Len(s) \/ i = Len(s) + 1
  BY <1>1
<1> HIDE <1>2
<1>3. \A y : Among(y, Append(s, x)) <=> Among(y, s) \/ y = x
  <2> DEFINE t == Append(s, x)
  <2> HIDE DEF t
  <2>1. ASSUME NEW y, Among(y, t) PROVE Among(y, s) \/ y = x
    <3>1. PICK i \in 1..Len(s) + 1 : t[i] = y
      BY <1>1, <2>1 DEF Among, t
    <3> QED
      BY <1>1, <1>2, <3>1 DEF Among, t
  <2>2. ASSUME NEW y, Among(y, s) \/ y = x PROVE Among(y, t)
    <3>1. CASE Among(y, s)
      <4>1. PICK i \in 1..Len(s) : s[i] = y
        BY <3>1 DEF Among
      <4> QED
        BY <1>1, <4>1 DEF Among, t
    <3>2. CASE y = x
      BY <1>1, <3>2 DEF Among, t
    <3> QED
      BY <2>2, <3>1, <3>2
  <2> QED
    BY <2>1, <2>2 DEF t
<1> QED
  BY <1>1, <1>3

LEMMA TailIs ==
    ASSUME NEW S, NEW s \in Seq(S), s # <<>>
    PROVE  /\ Head(s) = s[1] /\ s[1] \in S /\ Among(s[1], s) /\ 1 \in 1..Len(s)
           /\ Tail(s) \in Seq(S) /\ Len(Tail(s)) = Len(s) - 1 /\ Len(s) \in Nat
           /\ \A i \in 1..Len(Tail(s)) : Tail(s)[i] = s[i + 1] /\ i + 1 \in 1..Len(s)
           /\ \A y : Among(y, Tail(s)) => Among(y, s)
<1>1. /\ Head(s) = s[1] /\ s[1] \in S /\ 1 \in 1..Len(s)
      /\ Tail(s) \in Seq(S) /\ Len(Tail(s)) = Len(s) - 1 /\ Len(s) \in Nat
      /\ \A i \in 1..Len(Tail(s)) : Tail(s)[i] = s[i + 1] /\ i + 1 \in 1..Len(s)
  OBVIOUS
<1> QED
  BY <1>1 DEF Among

\* A function over the positions of a sequence that is computed from the position before
Works(n, x, next, S, g) ==
    /\ g \in [0..n -> S] /\ g[0] = x
    /\ \A i \in 1..n : g[i] = next[i][g[i - 1]]

LEMMA StepsExist ==
    ASSUME NEW S, NEW n \in Nat, NEW x \in S, NEW next \in [1..n -> [S -> S]]
    PROVE  \E g : Works(n, x, next, S, g)
<1> DEFINE W(m, g) == Works(m, x, next, S, g)
           Bad == {m \in Nat : m <= n /\ ~ \E g : W(m, g)}
<1>1. Bad = {}
  <2>1. SUFFICES ASSUME Bad # {} PROVE FALSE
    OBVIOUS
  <2>2. PICK m \in Bad : \A k \in Bad : m <= k
    BY <2>1, LeastNatural
  <2>3. m \in 0..n /\ m <= n /\ ~ \E g : W(m, g)
    BY <2>2
  <2>4. CASE m = 0
    <3>1. W(0, [i \in 0..0 |-> x])
      BY DEF Works
    <3> QED
      BY <2>3, <2>4, <3>1
  <2>5. CASE m # 0
    <3>1. m - 1 \in 0..n /\ m - 1 \in Nat /\ m \in 1..n
      BY <2>3, <2>5
    <3>2. m - 1 \notin Bad /\ m - 1 <= n
      <4>1. ~(m <= m - 1) /\ m - 1 <= n
        BY <3>1
      <4> HIDE DEF Bad
      <4> QED
        BY <2>2, <4>1
    <3>3. PICK h : W(m - 1, h)
      <4> HIDE DEF W
      <4> QED
        BY <3>1, <3>2
    <3> DEFINE y == h[m - 1]
               g == [i \in 0..m |-> IF i = m THEN next[m][y] ELSE h[i]]
    <3>4. y \in S /\ next[m][y] \in S
      <4>1. y \in S /\ next[m] \in [S -> S]
        BY <3>1, <3>3 DEF Works
      <4> QED
        BY <4>1
    <3>5. \A i \in 0..m : i # m => i \in 0..m - 1
      BY <3>1
    <3>6. g \in [0..m -> S]
      BY <3>3, <3>4, <3>5 DEF Works
    <3>7. g[0] = x /\ g[m] = next[m][g[m - 1]]
      <4>1. 0 \in 0..m /\ m \in 0..m /\ m - 1 \in 0..m /\ m - 1 # m /\ 0 # m
        BY <2>5, <3>1
      <4>2. g[0] = h[0] /\ g[m - 1] = y /\ g[m] = next[m][y]
        BY <4>1
      <4> QED
        BY <3>3, <4>2 DEF Works
    <3>8. \A i \in 1..m : i # m => g[i] = next[i][g[i - 1]]
      <4> SUFFICES ASSUME NEW i \in 1..m, i # m PROVE g[i] = next[i][g[i - 1]]
        OBVIOUS
      <4>1. i \in 1..m - 1 /\ i - 1 # m /\ i \in 0..m /\ i - 1 \in 0..m
        BY <3>1
      <4>2. g[i] = h[i] /\ g[i - 1] = h[i - 1]
        BY <4>1
      <4> QED
        BY <3>3, <4>1, <4>2 DEF Works
    <3> HIDE DEF g, y
    <3>9. W(m, g)
      BY <3>6, <3>7, <3>8 DEF Works
    <3> QED
      BY <2>3, <3>9
  <2> QED
    BY <2>4, <2>5
<1>2. n \notin Bad /\ n <= n
  <2>1. n <= n
    OBVIOUS
  <2> HIDE DEF Bad
  <2> QED
    BY <1>1, <2>1
<1>3. \E g : W(n, g)
  <2> HIDE DEF W
  <2> QED
    BY <1>2
<1> QED
  BY <1>3

LEMMA StepsStay ==
    ASSUME NEW S, NEW n \in Nat, NEW f, f[0] \in S, \A i \in 1..n : f[i - 1] \in S => f[i] \in S
    PROVE  \A i \in 0..n : f[i] \in S
<1> DEFINE Bad == {i \in Nat : i <= n /\ f[i] \notin S}
<1>1. SUFFICES ASSUME Bad # {} PROVE FALSE
  OBVIOUS
<1>2. PICK i \in Bad : \A k \in Bad : i <= k
  BY <1>1, LeastNatural
<1>3. i \in 1..n /\ i - 1 \in Nat /\ i - 1 <= n /\ ~(i <= i - 1) /\ f[i] \notin S
  BY <1>2
<1>4. f[i - 1] \in S
  BY <1>2, <1>3
<1> QED
  BY <1>3, <1>4

-----------------------------------------------------------------------------
(* What the child emits, and what is made of it *)

Event  == [kind: {"state", "started", "ended", "requested", "resolved"}, id: Nat,
           life: {"idle", "running", "error", "closed"}, pending: BOOLEAN]
Update == [kind: {"resolved", "requested", "terminal"}, id: Nat]
Wait   == [at: {"unasked", "dispatch", "armed", "permission", "settled", "over"},
           started: BOOLEAN]
Entry  == [id: Nat, names: SUBSET Nat]
Buffer == [delivered: SUBSET Nat, entries: Seq(Entry), early: SUBSET Nat, initial: BOOLEAN,
           terminal: BOOLEAN]

\* An end is of a child at rest, a resolution of a request that is not open, a request one
\* that is not known to be resolved
UpdateOK(u, requests, made, done, rest) ==
    /\ u.kind = "terminal" => rest
    /\ u.kind = "resolved" => u.id \in 1..made /\ u.id \notin requests
    /\ u.kind = "requested" => u.id \in 1..made /\ u.id \notin done
QueueOK(q, requests, made, done, rest) ==
    /\ \A i \in 1..Len(q) : UpdateOK(q[i], requests, made, done, rest)
    /\ \A i, j \in 1..Len(q) : i < j /\ q[i].kind = "resolved" /\ q[j].kind = "requested" =>
          q[i].id # q[j].id

LEMMA QueueAppend ==
    ASSUME NEW q \in Seq(Update), NEW u \in Update, NEW requests, NEW made, NEW done, NEW rest,
           QueueOK(q, requests, made, done, rest), UpdateOK(u, requests, made, done, rest),
           u.kind = "requested" => \A i \in 1..Len(q) : q[i].kind = "resolved" => q[i].id # u.id
    PROVE  Append(q, u) \in Seq(Update) /\ QueueOK(Append(q, u), requests, made, done, rest)
<1> DEFINE t == Append(q, u)
<1>1. /\ t \in Seq(Update) /\ Len(t) = Len(q) + 1 /\ Len(q) \in Nat
      /\ (\A i \in 1..Len(q) : t[i] = q[i]) /\ t[Len(q) + 1] = u
  BY AppendIs
<1> HIDE DEF t
<1>2. \A i \in 1..Len(t) : i \in 1..Len(q) \/ i = Len(q) + 1
  BY <1>1
<1>3. \A i \in 1..Len(t) : UpdateOK(t[i], requests, made, done, rest)
  BY <1>1, <1>2 DEF QueueOK
<1>4. ASSUME NEW i \in 1..Len(t), NEW j \in 1..Len(t), i < j, t[i].kind = "resolved", t[j].kind = "requested"
      PROVE  t[i].id # t[j].id
  <2>1. i \in 1..Len(q)
    BY <1>1, <1>2, <1>4
  <2> QED
    BY <1>1, <1>2, <1>4, <2>1 DEF QueueOK
<1> QED
  BY <1>1, <1>3, <1>4 DEF QueueOK, t

\* What a step of the child may emit
EventOK(e, requests, before, made, rest) ==
    /\ e.life = "running" \/ rest
    /\ e.kind = "resolved" => e.id \in 1..before /\ e.id \notin requests
    /\ e.kind = "requested" => e.id \in 1..made /\ e.id \notin 1..before

LEMMA ObservedIs ==
    ASSUME NEW e \in Event
    PROVE  \/ ObserveState(e) = <<>>
           \/ \E u \in Update :
                 /\ ObserveState(e) = <<u>>
                 /\ u.kind = "terminal" => e.life # "running"
                 /\ u.kind = "resolved" => e.kind = "resolved" /\ u.id = e.id
                 /\ u.kind = "requested" => e.kind = "requested" /\ u.id = e.id
<1>1. CASE e.kind = "resolved"
  BY <1>1 DEF ObserveState, Event, Update
<1>2. CASE e.kind = "requested"
  BY <1>2 DEF ObserveState, Event, Update
<1>3. CASE e.kind \in {"state", "ended"} /\ IsTerminal(e)
  BY <1>3 DEF ObserveState, Event, Update, IsTerminal, NoAsk
<1>4. CASE e.kind \notin {"resolved", "requested"} /\ ~(e.kind \in {"state", "ended"} /\ IsTerminal(e))
  BY <1>4 DEF ObserveState
<1> QED
  BY <1>1, <1>2, <1>3, <1>4

LEMMA QueueStepsAre ==
    ASSUME NEW events \in Seq(Event), updates \in Seq(Update)
    PROVE  /\ QueueSteps(events)[0] = updates
           /\ \A i \in 1..Len(events) :
                 QueueSteps(events)[i] = QueueSteps(events)[i - 1] \o ObserveState(events[i])
<1> DEFINE n == Len(events)
           S == Seq(Update)
           next == [i \in 1..n |-> [q \in S |-> q \o ObserveState(events[i])]]
           f == QueueSteps(events)
<1>1. n \in Nat /\ \A i \in 1..n : events[i] \in Event
  OBVIOUS
<1>2. \A q \in S, i \in 1..n : next[i][q] = q \o ObserveState(events[i])
  OBVIOUS
<1>3. next \in [1..n -> [S -> S]]
  <2> SUFFICES ASSUME NEW i \in 1..n, NEW q \in S PROVE q \o ObserveState(events[i]) \in S
    OBVIOUS
  <2>1. ObserveState(events[i]) \in Seq(Update)
    <3> DEFINE e == events[i]
    <3>1. e \in Event
      BY <1>1
    <3> HIDE DEF e
    <3>2. ObserveState(e) = <<>> \/ \E u \in Update : ObserveState(e) = <<u>>
      BY <3>1, ObservedIs
    <3>3. CASE ObserveState(e) = <<>>
      BY <3>3 DEF e
    <3>4. ASSUME NEW u \in Update, ObserveState(e) = <<u>> PROVE ObserveState(e) \in Seq(Update)
      BY ONLY <3>4
    <3> QED
      BY <3>2, <3>3, <3>4 DEF e
  <2> QED
    BY <2>1
<1> HIDE DEF n, next, S
<1>4. PICK g : Works(n, updates, next, S, g)
  <2>1. updates \in S
    BY DEF S
  <2> QED
    BY <1>1, <1>3, <2>1, StepsExist
<1>5. \A i \in 0..n : g[i] = IF i = 0 THEN updates ELSE g[i - 1] \o ObserveState(events[i])
  <2> SUFFICES ASSUME NEW i \in 0..n, i # 0 PROVE g[i] = g[i - 1] \o ObserveState(events[i])
    BY <1>4 DEF Works
  <2>1. i \in 1..n /\ i - 1 \in 0..n
    BY <1>1
  <2>2. g[i] = next[i][g[i - 1]] /\ g[i - 1] \in S
    BY <1>4, <2>1 DEF Works
  <2> QED
    BY <1>2, <2>1, <2>2
<1>6. g = [i \in 0..n |-> IF i = 0 THEN updates ELSE g[i - 1] \o ObserveState(events[i])]
  BY <1>4, <1>5 DEF Works
<1>7. f = [i \in 0..n |-> IF i = 0 THEN updates ELSE f[i - 1] \o ObserveState(events[i])]
  BY <1>6 DEF QueueSteps, n
<1> HIDE DEF f
<1>8. f[0] = updates /\ \A i \in 1..n : f[i] = f[i - 1] \o ObserveState(events[i])
  <2>1. 0 \in 0..n /\ \A i \in 1..n : i \in 0..n /\ i # 0
    BY <1>1
  <2> QED
    BY <1>7, <2>1
<1> QED
  BY <1>8 DEF f, n

\* What is published of these events
LEMMA Publishes ==
    ASSUME NEW events \in Seq(Event), updates \in Seq(Update), NEW requests, NEW before \in Nat,
           NEW made \in Nat, NEW done, NEW rest, before <= made, done \subseteq 1..before,
           \A i \in 1..Len(events) : EventOK(events[i], requests, before, made, rest),
           QueueOK(updates, requests, before, done, rest)
    PROVE  /\ QueueSteps(events)[Len(events)] \in Seq(Update)
           /\ QueueOK(QueueSteps(events)[Len(events)], requests, made, done, rest)
<1> DEFINE f == QueueSteps(events)
           Old(q) == \A i \in 1..Len(q) : q[i].kind = "resolved" => q[i].id \in 1..before
           S == {q \in Seq(Update) : QueueOK(q, requests, made, done, rest) /\ Old(q)}
<1>1. f[0] = updates /\ \A i \in 1..Len(events) : f[i] = f[i - 1] \o ObserveState(events[i])
  BY QueueStepsAre
<1>2. Len(events) \in Nat /\ \A i \in 1..Len(events) : events[i] \in Event
  OBVIOUS
<1> HIDE DEF f
<1>3. f[0] \in S
  <2>1. \A u : UpdateOK(u, requests, before, done, rest) => UpdateOK(u, requests, made, done, rest)
    BY DEF UpdateOK
  <2>2. QueueOK(updates, requests, made, done, rest)
    BY <2>1 DEF QueueOK
  <2>3. Old(updates)
    BY DEF QueueOK, UpdateOK
  <2> QED
    BY <1>1, <2>2, <2>3
<1>4. ASSUME NEW i \in 1..Len(events), f[i - 1] \in S PROVE f[i] \in S
  <2> DEFINE q == f[i - 1]
             e == events[i]
  <2>1. /\ q \in Seq(Update) /\ QueueOK(q, requests, made, done, rest) /\ Old(q)
        /\ e \in Event /\ EventOK(e, requests, before, made, rest) /\ f[i] = q \o ObserveState(e)
    BY <1>1, <1>2, <1>4
  <2> HIDE DEF q, e, S
  <2>2. CASE ObserveState(e) = <<>>
    BY <2>1, <2>2 DEF S
  <2>3. ASSUME NEW u \in Update, ObserveState(e) = <<u>>,
               u.kind = "terminal" => e.life # "running",
               u.kind = "resolved" => e.kind = "resolved" /\ u.id = e.id,
               u.kind = "requested" => e.kind = "requested" /\ u.id = e.id
        PROVE  f[i] \in S
    <3>1. f[i] = Append(q, u)
      BY <2>1, <2>3
    <3>2. UpdateOK(u, requests, made, done, rest)
      BY <2>1, <2>3 DEF UpdateOK, EventOK
    <3>3. u.kind = "requested" => \A k \in 1..Len(q) : q[k].kind = "resolved" => q[k].id # u.id
      BY <2>1, <2>3 DEF EventOK
    <3>4. Append(q, u) \in Seq(Update) /\ QueueOK(Append(q, u), requests, made, done, rest)
      BY <2>1, <3>2, <3>3, QueueAppend
    <3>5. u.kind = "resolved" => u.id \in 1..before
      BY <2>1, <2>3 DEF EventOK
    <3>6. Old(Append(q, u))
      <4>1. /\ Len(Append(q, u)) = Len(q) + 1 /\ Len(q) \in Nat
            /\ (\A k \in 1..Len(q) : Append(q, u)[k] = q[k]) /\ Append(q, u)[Len(q) + 1] = u
        BY <2>1, AppendIs
      <4>2. \A k \in 1..Len(q) + 1 : k \in 1..Len(q) \/ k = Len(q) + 1
        BY <4>1
      <4> QED
        BY <2>1, <3>5, <4>1, <4>2
    <3> QED
      BY <3>1, <3>4, <3>6 DEF S
  <2> QED
    BY <2>1, <2>2, <2>3, ObservedIs
<1> HIDE DEF S
<1>5. f[Len(events)] \in S
  <2>1. Len(events) \in 0..Len(events)
    BY <1>2
  <2> QED
    BY <1>2, <1>3, <1>4, <2>1, StepsStay
<1> QED
  BY <1>5 DEF S, f

-----------------------------------------------------------------------------
(* The initial wait *)

LEMMA HearingIs ==
    ASSUME NEW w \in Wait, NEW e \in Event
    PROVE  /\ Hearing(w, e) \in Wait
           /\ Hearing(w, e).at = "settled" => w.at = "settled" \/ e.life # "running"
<1> USE DEF Wait
<1>1. CASE w.at # "armed"
  BY <1>1 DEF Hearing
<1>2. CASE w.at = "armed" /\ (e.kind = "requested" \/ (e.kind = "state" /\ e.pending))
  BY <1>2 DEF Hearing
<1>3. CASE w.at = "armed" /\ e.kind = "state" /\ ~e.pending /\ e.life = "running"
  BY <1>3 DEF Hearing
<1>4. CASE w.at = "armed" /\ e.kind = "state" /\ ~e.pending /\ e.life # "running" /\ w.started
  BY <1>4 DEF Hearing
<1>5. CASE w.at = "armed" /\ e.kind = "ended"
  BY <1>5 DEF Hearing
<1>6. CASE /\ w.at = "armed" /\ e.kind # "requested" /\ e.kind # "ended"
           /\ e.kind = "state" => ~e.pending /\ e.life # "running" /\ ~w.started
  BY <1>6 DEF Hearing
<1> QED
  BY <1>1, <1>2, <1>3, <1>4, <1>5, <1>6

LEMMA HearStepsAre ==
    ASSUME NEW events \in Seq(Event), wait \in Wait
    PROVE  /\ HearSteps(events)[0] = wait
           /\ \A i \in 1..Len(events) :
                 HearSteps(events)[i] = Hearing(HearSteps(events)[i - 1], events[i])
<1> DEFINE n == Len(events)
           S == Wait
           next == [i \in 1..n |-> [w \in S |-> Hearing(w, events[i])]]
           f == HearSteps(events)
<1>1. n \in Nat /\ \A i \in 1..n : events[i] \in Event
  OBVIOUS
<1>2. \A w \in S, i \in 1..n : next[i][w] = Hearing(w, events[i])
  OBVIOUS
<1>3. next \in [1..n -> [S -> S]]
  BY <1>1, HearingIs
<1> HIDE DEF n, next, S
<1>4. PICK g : Works(n, wait, next, S, g)
  <2>1. wait \in S
    BY DEF S
  <2> QED
    BY <1>1, <1>3, <2>1, StepsExist
<1>5. \A i \in 0..n : g[i] = IF i = 0 THEN wait ELSE Hearing(g[i - 1], events[i])
  <2> SUFFICES ASSUME NEW i \in 0..n, i # 0 PROVE g[i] = Hearing(g[i - 1], events[i])
    BY <1>4 DEF Works
  <2>1. i \in 1..n /\ i - 1 \in 0..n
    BY <1>1
  <2>2. g[i] = next[i][g[i - 1]] /\ g[i - 1] \in S
    BY <1>4, <2>1 DEF Works
  <2> QED
    BY <1>2, <2>1, <2>2
<1>6. g = [i \in 0..n |-> IF i = 0 THEN wait ELSE Hearing(g[i - 1], events[i])]
  BY <1>4, <1>5 DEF Works
<1>7. f = [i \in 0..n |-> IF i = 0 THEN wait ELSE Hearing(f[i - 1], events[i])]
  BY <1>6 DEF HearSteps, n
<1> HIDE DEF f
<1>8. f[0] = wait /\ \A i \in 1..n : f[i] = Hearing(f[i - 1], events[i])
  <2>1. 0 \in 0..n /\ \A i \in 1..n : i \in 0..n /\ i # 0
    BY <1>1
  <2> QED
    BY <1>7, <2>1
<1> QED
  BY <1>8 DEF f, n

\* It settles when the child rests
LEMMA HearsOnlyRest ==
    ASSUME NEW events \in Seq(Event), wait \in Wait, NEW rest,
           \A i \in 1..Len(events) : events[i].life = "running" \/ rest,
           wait.at = "settled" => rest
    PROVE  /\ HearSteps(events)[Len(events)] \in Wait
           /\ HearSteps(events)[Len(events)].at = "settled" => rest
<1> DEFINE f == HearSteps(events)
           S == {w \in Wait : w.at = "settled" => rest}
<1>1. f[0] = wait /\ \A i \in 1..Len(events) : f[i] = Hearing(f[i - 1], events[i])
  BY HearStepsAre
<1>2. Len(events) \in Nat /\ \A i \in 1..Len(events) : events[i] \in Event
  OBVIOUS
<1> HIDE DEF f
<1>3. f[0] \in S
  BY <1>1
<1>4. ASSUME NEW i \in 1..Len(events), f[i - 1] \in S PROVE f[i] \in S
  <2> DEFINE w == f[i - 1]
             e == events[i]
  <2>1. /\ w \in Wait /\ (w.at = "settled" => rest)
        /\ e \in Event /\ (e.life = "running" \/ rest) /\ f[i] = Hearing(w, e)
    BY <1>1, <1>2, <1>4
  <2> HIDE DEF w, e
  <2>2. Hearing(w, e) \in Wait /\ (Hearing(w, e).at = "settled" => w.at = "settled" \/ e.life # "running")
    BY <2>1, HearingIs
  <2> QED
    BY <2>1, <2>2
<1> HIDE DEF S
<1>5. f[Len(events)] \in S
  <2>1. Len(events) \in 0..Len(events)
    BY <1>2
  <2> QED
    BY <1>2, <1>3, <1>4, <2>1, StepsStay
<1> QED
  BY <1>5 DEF S, f

-----------------------------------------------------------------------------
(* The resolutions of all requests *)

LEMMA ResolvedStepsAre ==
    ASSUME NEW life \in {"idle", "running", "error", "closed"}
    PROVE  /\ ResolvedSteps(life)[0] = <<>>
           /\ \A r \in 1..MaxAsks :
                 ResolvedSteps(life)[r] = IF r \in open
                                          THEN Append(ResolvedSteps(life)[r - 1], Resolved(r, life))
                                          ELSE ResolvedSteps(life)[r - 1]
<1> DEFINE n == MaxAsks
           S == Seq(Event)
           e == <<>>
           next == [r \in 1..n |-> [q \in S |-> IF r \in open THEN Append(q, Resolved(r, life)) ELSE q]]
           f == ResolvedSteps(life)
<1>1. n \in Nat /\ \A r \in 1..n : Resolved(r, life) \in Event
  BY ObservationAssumption DEF Resolved, Emitted, Event
<1>2. \A q \in S, r \in 1..n : next[r][q] = IF r \in open THEN Append(q, Resolved(r, life)) ELSE q
  OBVIOUS
<1>3. next \in [1..n -> [S -> S]] /\ e \in S
  BY <1>1
<1> HIDE DEF n, next, S, e
<1>4. PICK g : Works(n, e, next, S, g)
  BY <1>1, <1>3, StepsExist
<1>5. \A r \in 0..n : g[r] = IF r = 0 THEN e ELSE IF r \in open THEN Append(g[r - 1], Resolved(r, life)) ELSE g[r - 1]
  <2> SUFFICES ASSUME NEW r \in 0..n, r # 0
               PROVE  g[r] = IF r \in open THEN Append(g[r - 1], Resolved(r, life)) ELSE g[r - 1]
    BY <1>4 DEF Works
  <2>1. r \in 1..n /\ r - 1 \in 0..n
    BY <1>1
  <2>2. g[r] = next[r][g[r - 1]] /\ g[r - 1] \in S
    BY <1>4, <2>1 DEF Works
  <2> QED
    BY <1>2, <2>1, <2>2
<1>6. g = [r \in 0..n |-> IF r = 0 THEN e ELSE IF r \in open THEN Append(g[r - 1], Resolved(r, life)) ELSE g[r - 1]]
  BY <1>4, <1>5 DEF Works
<1>7. f = [r \in 0..n |-> IF r = 0 THEN e ELSE IF r \in open THEN Append(f[r - 1], Resolved(r, life)) ELSE f[r - 1]]
  BY <1>6 DEF ResolvedSteps, n, e
<1> HIDE DEF f
<1>8. f[0] = e /\ \A r \in 1..n : f[r] = IF r \in open THEN Append(f[r - 1], Resolved(r, life)) ELSE f[r - 1]
  <2>1. 0 \in 0..n /\ \A r \in 1..n : r \in 0..n /\ r # 0
    BY <1>1
  <2> QED
    BY <1>7, <2>1
<1> QED
  BY <1>8 DEF f, n, e

LEMMA ResolvedAllIs ==
    ASSUME NEW life \in {"idle", "running", "error", "closed"}
    PROVE  /\ ResolvedAll(life) \in Seq(Event)
           /\ \A i \in 1..Len(ResolvedAll(life)) :
                 /\ ResolvedAll(life)[i].kind = "resolved" /\ ResolvedAll(life)[i].life = life
                 /\ ResolvedAll(life)[i].id \in open
<1> DEFINE f == ResolvedSteps(life)
           Good == {e \in Event : e.kind = "resolved" /\ e.life = life /\ e.id \in open}
           S == {q \in Seq(Event) : \A i \in 1..Len(q) : q[i] \in Good}
<1>1. /\ f[0] = <<>>
      /\ \A r \in 1..MaxAsks : f[r] = IF r \in open THEN Append(f[r - 1], Resolved(r, life)) ELSE f[r - 1]
  BY ResolvedStepsAre
<1>2. MaxAsks \in Nat /\ \A r \in 1..MaxAsks : r \in open => Resolved(r, life) \in Good
  BY ObservationAssumption DEF Resolved, Emitted, Event
<1> HIDE DEF f, Good
<1>3. f[0] \in S
  BY <1>1
<1>4. ASSUME NEW r \in 1..MaxAsks, f[r - 1] \in S PROVE f[r] \in S
  <2>1. CASE r \in open
    <3> DEFINE q == f[r - 1]
               x == Resolved(r, life)
    <3>1. f[r] = Append(q, x) /\ q \in Seq(Event) /\ x \in Good /\ (\A i \in 1..Len(q) : q[i] \in Good)
      BY <1>1, <1>2, <1>4, <2>1
    <3>2. x \in Event
      BY <3>1 DEF Good
    <3> HIDE DEF q, x
    <3>3. /\ Append(q, x) \in Seq(Event) /\ Len(Append(q, x)) = Len(q) + 1 /\ Len(q) \in Nat
          /\ (\A i \in 1..Len(q) : Append(q, x)[i] = q[i]) /\ Append(q, x)[Len(q) + 1] = x
      BY <3>1, <3>2, AppendIs
    <3>4. \A i \in 1..Len(q) + 1 : i \in 1..Len(q) \/ i = Len(q) + 1
      BY <3>3
    <3> QED
      BY <3>1, <3>3, <3>4
  <2>2. CASE r \notin open
    BY <1>1, <1>4, <2>2
  <2> QED
    BY <2>1, <2>2
<1> HIDE DEF S
<1>5. f[MaxAsks] \in S
  <2>1. MaxAsks \in 0..MaxAsks
    BY <1>2
  <2> QED
    BY <1>2, <1>3, <1>4, <2>1, StepsStay
<1> QED
  BY <1>5 DEF S, f, Good, ResolvedAll

-----------------------------------------------------------------------------
(* The entries of the buffer *)

\* An entry of a request that is not known to be resolved, with a result that names it
EntryOK(entry, done) == entry.id \in entry.names /\ entry.id \notin done
Entries(done) == {q \in Seq(Entry) : \A i \in 1..Len(q) : EntryOK(q[i], done)}

LEMMA OtherStepsAre ==
    ASSUME NEW entries \in Seq(Entry), NEW ids
    PROVE  /\ OtherSteps(entries, ids)[0] = <<>>
           /\ \A i \in 1..Len(entries) :
                 OtherSteps(entries, ids)[i] =
                    IF entries[i].id \in ids THEN OtherSteps(entries, ids)[i - 1]
                    ELSE Append(OtherSteps(entries, ids)[i - 1], entries[i])
<1> DEFINE n == Len(entries)
           S == Seq(Entry)
           e == <<>>
           next == [i \in 1..n |-> [q \in S |-> IF entries[i].id \in ids THEN q ELSE Append(q, entries[i])]]
           f == OtherSteps(entries, ids)
<1>1. n \in Nat /\ \A i \in 1..n : entries[i] \in Entry
  OBVIOUS
<1>2. \A q \in S, i \in 1..n : next[i][q] = IF entries[i].id \in ids THEN q ELSE Append(q, entries[i])
  OBVIOUS
<1>3. next \in [1..n -> [S -> S]] /\ e \in S
  BY <1>1
<1> HIDE DEF n, next, S, e
<1>4. PICK g : Works(n, e, next, S, g)
  BY <1>1, <1>3, StepsExist
<1>5. \A i \in 0..n : g[i] = IF i = 0 THEN e ELSE IF entries[i].id \in ids THEN g[i - 1] ELSE Append(g[i - 1], entries[i])
  <2> SUFFICES ASSUME NEW i \in 0..n, i # 0
               PROVE  g[i] = IF entries[i].id \in ids THEN g[i - 1] ELSE Append(g[i - 1], entries[i])
    BY <1>4 DEF Works
  <2>1. i \in 1..n /\ i - 1 \in 0..n
    BY <1>1
  <2>2. g[i] = next[i][g[i - 1]] /\ g[i - 1] \in S
    BY <1>4, <2>1 DEF Works
  <2> QED
    BY <1>2, <2>1, <2>2
<1>6. g = [i \in 0..n |-> IF i = 0 THEN e ELSE IF entries[i].id \in ids THEN g[i - 1] ELSE Append(g[i - 1], entries[i])]
  BY <1>4, <1>5 DEF Works
<1>7. f = [i \in 0..n |-> IF i = 0 THEN e ELSE IF entries[i].id \in ids THEN f[i - 1] ELSE Append(f[i - 1], entries[i])]
  BY <1>6 DEF OtherSteps, n, e
<1> HIDE DEF f
<1>8. f[0] = e /\ \A i \in 1..n : f[i] = IF entries[i].id \in ids THEN f[i - 1] ELSE Append(f[i - 1], entries[i])
  <2>1. 0 \in 0..n /\ \A i \in 1..n : i \in 0..n /\ i # 0
    BY <1>1
  <2> QED
    BY <1>7, <2>1
<1> QED
  BY <1>8 DEF f, n, e

LEMMA EntriesAppend ==
    ASSUME NEW done, NEW q \in Entries(done), NEW x \in Entry, EntryOK(x, done)
    PROVE  Append(q, x) \in Entries(done)
<1>1. q \in Seq(Entry) /\ \A i \in 1..Len(q) : EntryOK(q[i], done)
  BY DEF Entries
<1>2. /\ Append(q, x) \in Seq(Entry) /\ Len(Append(q, x)) = Len(q) + 1 /\ Len(q) \in Nat
      /\ (\A i \in 1..Len(q) : Append(q, x)[i] = q[i]) /\ Append(q, x)[Len(q) + 1] = x
  BY <1>1, AppendIs
<1>3. \A i \in 1..Len(q) + 1 : i \in 1..Len(q) \/ i = Len(q) + 1
  BY <1>2
<1> QED
  BY <1>1, <1>2, <1>3 DEF Entries

\* The others of some requests, which may be resolved now
LEMMA OthersAre ==
    ASSUME NEW done, NEW entries \in Entries(done), NEW ids
    PROVE  Others(entries, ids) \in Entries(done \cup ids) /\ Others(entries, ids) \in Entries(done)
<1> DEFINE f == OtherSteps(entries, ids)
           S == Entries(done \cup ids)
<1>1. entries \in Seq(Entry) /\ Len(entries) \in Nat
      /\ \A i \in 1..Len(entries) : entries[i] \in Entry /\ EntryOK(entries[i], done)
  BY DEF Entries
<1>2. /\ f[0] = <<>>
      /\ \A i \in 1..Len(entries) : f[i] = IF entries[i].id \in ids THEN f[i - 1] ELSE Append(f[i - 1], entries[i])
  BY <1>1, OtherStepsAre
<1> HIDE DEF f
<1>3. f[0] \in S
  BY <1>2 DEF Entries
<1>4. ASSUME NEW i \in 1..Len(entries), f[i - 1] \in S PROVE f[i] \in S
  <2>1. CASE entries[i].id \in ids
    BY <1>2, <1>4, <2>1
  <2>2. CASE entries[i].id \notin ids
    <3> DEFINE q == f[i - 1]
               x == entries[i]
               now == done \cup ids
    <3>1. f[i] = Append(q, x) /\ q \in Entries(now) /\ x \in Entry /\ EntryOK(x, now)
      BY <1>1, <1>2, <1>4, <2>2 DEF EntryOK
    <3> HIDE DEF q, x, now
    <3>2. Append(q, x) \in Entries(now)
      BY <3>1, EntriesAppend
    <3> QED
      BY <3>1, <3>2 DEF now
  <2> QED
    BY <2>1, <2>2
<1> HIDE DEF S
<1>5. f[Len(entries)] \in S
  <2>1. Len(entries) \in 0..Len(entries)
    BY <1>1
  <2> QED
    BY <1>1, <1>3, <1>4, <2>1, StepsStay
<1>6. \A q \in S : q \in Entries(done)
  BY DEF S, Entries, EntryOK
<1> QED
  BY <1>5, <1>6 DEF S, f, Others

LEMMA SetEntryIs ==
    ASSUME NEW done, NEW q \in Entries(done), NEW names \in SUBSET Nat, NEW r \in names, r \notin done
    PROVE  SetEntry(q, r, names) \in Entries(done)
<1> DEFINE x == [id |-> r, names |-> names]
<1>1. x \in Entry /\ EntryOK(x, done) /\ x.id = r
  BY DEF Entry, EntryOK
<1>2. q \in Seq(Entry) /\ \A i \in 1..Len(q) : q[i] \in Entry /\ EntryOK(q[i], done)
  BY DEF Entries
<1>3. SetEntry(q, r, names) = IF \E i \in DOMAIN q : q[i].id = r
                              THEN [i \in DOMAIN q |-> IF q[i].id = r THEN x ELSE q[i]]
                              ELSE Append(q, x)
  BY DEF SetEntry
<1> HIDE DEF x
<1>4. CASE \E i \in DOMAIN q : q[i].id = r
  <2> DEFINE t == [i \in 1..Len(q) |-> IF q[i].id = r THEN x ELSE q[i]]
  <2>1. DOMAIN q = 1..Len(q) /\ Len(q) \in Nat
    BY <1>2
  <2>2. t \in [1..Len(q) -> Entry] /\ \A i \in 1..Len(q) : t[i] = IF q[i].id = r THEN x ELSE q[i]
    BY <1>1, <1>2
  <2>3. t \in Seq(Entry) /\ Len(t) = Len(q)
    BY ONLY <2>1, <2>2
  <2>4. SetEntry(q, r, names) = t
    BY <1>3, <1>4, <2>1
  <2> HIDE DEF t
  <2> QED
    BY <1>1, <1>2, <2>2, <2>3, <2>4 DEF Entries
<1>5. CASE ~ \E i \in DOMAIN q : q[i].id = r
  <2>1. SetEntry(q, r, names) = Append(q, x)
    BY <1>3, <1>5
  <2>2. Append(q, x) \in Entries(done)
    BY <1>1, EntriesAppend
  <2> QED
    BY <2>1, <2>2
<1> QED
  BY <1>4, <1>5

LEMMA PushPermissionIs ==
    ASSUME NEW done, NEW b \in Buffer, NEW names \in SUBSET Nat, b.entries \in Entries(done),
           names \cap done = {}
    PROVE  /\ PushPermission(b, names) \in Buffer
           /\ PushPermission(b, names).entries \in Entries(done)
           /\ PushPermission(b, names).terminal = b.terminal
<1> DEFINE n == MaxAsks
           S == Entries(done)
           s == b.entries
           fresh == names \ b.delivered
           next == [r \in 1..n |-> [q \in S |-> IF r \in fresh THEN SetEntry(q, r, names) ELSE q]]
           f == PushSteps(b, names)
<1>1. n \in Nat /\ s \in S /\ \A r \in 1..n, q \in S : r \in fresh => SetEntry(q, r, names) \in S
  BY ObservationAssumption, SetEntryIs
<1>2. \A q \in S, r \in 1..n : next[r][q] = IF r \in fresh THEN SetEntry(q, r, names) ELSE q
  OBVIOUS
<1>3. next \in [1..n -> [S -> S]]
  BY <1>1
<1>12. S \subseteq Seq(Entry)
  BY DEF Entries
<1> HIDE DEF n, next, S, s, fresh
<1>4. PICK g : Works(n, s, next, S, g)
  BY <1>1, <1>3, StepsExist
<1>5. \A r \in 0..n : g[r] = IF r = 0 THEN s ELSE IF r \in fresh THEN SetEntry(g[r - 1], r, names) ELSE g[r - 1]
  <2> SUFFICES ASSUME NEW r \in 0..n, r # 0
               PROVE  g[r] = IF r \in fresh THEN SetEntry(g[r - 1], r, names) ELSE g[r - 1]
    BY <1>4 DEF Works
  <2>1. r \in 1..n /\ r - 1 \in 0..n
    BY <1>1
  <2>2. g[r] = next[r][g[r - 1]] /\ g[r - 1] \in S
    BY <1>4, <2>1 DEF Works
  <2> QED
    BY <1>2, <2>1, <2>2
<1>6. g = [r \in 0..n |-> IF r = 0 THEN s ELSE IF r \in fresh THEN SetEntry(g[r - 1], r, names) ELSE g[r - 1]]
  BY <1>4, <1>5 DEF Works
<1>7. f = [r \in 0..n |-> IF r = 0 THEN s ELSE IF r \in fresh THEN SetEntry(f[r - 1], r, names) ELSE f[r - 1]]
  BY <1>6 DEF PushSteps, n, s, fresh
<1> HIDE DEF f
<1>8. f[0] = s /\ \A r \in 1..n : f[r] = IF r \in fresh THEN SetEntry(f[r - 1], r, names) ELSE f[r - 1]
  <2>1. 0 \in 0..n /\ \A r \in 1..n : r \in 0..n /\ r # 0
    BY <1>1
  <2> QED
    BY <1>7, <2>1
<1>9. \A r \in 0..n : f[r] \in S
  BY <1>1, <1>8, StepsStay
<1>10. f[n] \in S /\ f[n] \in Seq(Entry)
  BY <1>1, <1>9, <1>12
<1>11. PushPermission(b, names) = [b EXCEPT !.entries = f[n]]
  BY DEF PushPermission, f, n
<1> QED
  BY <1>10, <1>11 DEF Buffer, S

-----------------------------------------------------------------------------
(* The inductive invariant *)

Lives == {"idle", "running", "error", "closed"}
Child == [life: Lives, run: {"none", "pending", "turn"}, hold: BOOLEAN]

ObservedTypes ==
    /\ child \in Child /\ asks \in Nat /\ open \subseteq 1..asks /\ cleared \subseteq 1..asks
    /\ updates \in Seq(Update) /\ wait \in Wait /\ buffer \in Buffer /\ rested \in BOOLEAN

\* Until it has rested the child runs, or the prompt it had at first is pending
RestKnown(c, requests, rest) ==
    /\ c.run = "turn" => c.life = "running"
    /\ rest \/ c.life = "running" \/ (c.life = "idle" /\ c.run = "pending" /\ requests = {})

ObservationInv ==
    /\ ObservedTypes
    /\ RestKnown(child, open, rested)
    /\ wait.at = "settled" => rested
    /\ QueueOK(updates, open, asks, cleared, rested)
    /\ cleared \cap open = {}
    /\ buffer.entries \in Entries(cleared)
    /\ buffer.terminal => rested

LEMMA ObservationStarts == ObservationInit => ObservationInv
<1> SUFFICES ASSUME ObservationInit PROVE ObservationInv
  OBVIOUS
<1> USE DEF ObservationInit
<1>1. ObservedTypes
  <2>1. child \in Child
    <3>1. \A life \in {"running", "idle", "closed"}, run \in {"turn", "pending", "none"} :
             [life |-> life, run |-> run, hold |-> FALSE] \in Child
      BY DEF Child, Lives
    <3> QED
      BY <3>1
  <2>2. wait \in Wait /\ updates \in Seq(Update)
    BY DEF Wait, NewWait
  <2>3. buffer \in Buffer
    BY DEF Buffer, NewBuffer
  <2>4. rested \in BOOLEAN
    BY DEF Rests
  <2> QED
    BY <2>1, <2>2, <2>3, <2>4 DEF ObservedTypes
<1>2. RestKnown(child, open, rested)
  <2>1. /\ child.run = "turn" => child.life = "running"
        /\ \/ child.life # "running" /\ child.run = "none"
           \/ child.life = "running"
           \/ child.life = "idle" /\ child.run = "pending"
    OBVIOUS
  <2> QED
    BY <2>1 DEF RestKnown, Rests
<1>3. QueueOK(updates, open, asks, cleared, rested) /\ buffer.entries \in Entries(cleared)
  BY DEF QueueOK, Entries, NewBuffer
<1> QED
  BY <1>1, <1>2, <1>3 DEF ObservationInv, NewWait, NewBuffer

\* What a step of the child owes
ChildMovesTo(c, requests, events) ==
    /\ c \in Child /\ events \in Seq(Event)
    /\ asks' \in Nat /\ asks <= asks'
    /\ requests \subseteq 1..asks' /\ \A r \in requests : r \in open \/ r \notin 1..asks
    /\ RestKnown(c, requests, rested \/ Rests(c))
    /\ \A i \in 1..Len(events) : EventOK(events[i], requests, asks, asks', rested \/ Rests(c))
    /\ Becomes(c, requests) /\ Emits(events)

LEMMA ChildStep ==
    ASSUME ObservationInv, NEW c, NEW requests, NEW events, ChildMovesTo(c, requests, events)
    PROVE  ObservationInv' /\ telling' = telling
<1> DEFINE rest == rested \/ Rests(c)
<1>1. /\ c \in Child /\ events \in Seq(Event) /\ asks' \in Nat /\ asks <= asks'
      /\ requests \subseteq 1..asks' /\ (\A r \in requests : r \in open \/ r \notin 1..asks)
      /\ RestKnown(c, requests, rest) /\ rest \in BOOLEAN
      /\ \A i \in 1..Len(events) : EventOK(events[i], requests, asks, asks', rest)
      /\ child' = c /\ open' = requests /\ rested' = rest
      /\ updates' = (IF at = "watching" THEN QueueSteps(events)[Len(events)] ELSE updates)
      /\ wait' = HearSteps(events)[Len(events)]
      /\ UNCHANGED <<buffer, telling, cleared>>
  BY DEF ChildMovesTo, Becomes, Emits, ObservationInv, ObservedTypes
<1>2. /\ ObservedTypes /\ (wait.at = "settled" => rested) /\ (buffer.terminal => rested)
      /\ QueueOK(updates, open, asks, cleared, rested) /\ cleared \cap open = {}
      /\ buffer.entries \in Entries(cleared)
      /\ asks \in Nat /\ cleared \subseteq 1..asks /\ updates \in Seq(Update) /\ wait \in Wait
  BY DEF ObservationInv, ObservedTypes
<1>3. rested => rest
  OBVIOUS
<1> HIDE DEF rest
<1>4. QueueOK(updates, requests, asks, cleared, rest) /\ QueueOK(updates, requests, asks', cleared, rest)
  <2>1. \A u : UpdateOK(u, open, asks, cleared, rested) =>
                  UpdateOK(u, requests, asks, cleared, rest) /\ UpdateOK(u, requests, asks', cleared, rest)
    BY <1>1, <1>2, <1>3 DEF UpdateOK
  <2> QED
    BY <1>2, <2>1 DEF QueueOK
<1>5. updates' \in Seq(Update) /\ QueueOK(updates', requests, asks', cleared, rest)
  <2>1. /\ QueueSteps(events)[Len(events)] \in Seq(Update)
        /\ QueueOK(QueueSteps(events)[Len(events)], requests, asks', cleared, rest)
    BY <1>1, <1>2, <1>4, Publishes
  <2> QED
    BY <1>1, <1>2, <1>4, <2>1
<1>6. wait' \in Wait /\ (wait'.at = "settled" => rest)
  <2>1. \A i \in 1..Len(events) : events[i].life = "running" \/ rest
    BY <1>1 DEF EventOK
  <2>2. wait.at = "settled" => rest
    BY <1>2, <1>3
  <2> QED
    BY <1>1, <1>2, <2>1, <2>2, HearsOnlyRest
<1>7. cleared' \subseteq 1..asks' /\ cleared' \cap open' = {}
  BY <1>1, <1>2
<1>8. ObservedTypes'
  BY <1>1, <1>2, <1>5, <1>6, <1>7 DEF ObservedTypes
<1>9. RestKnown(child, open, rested)'
  BY <1>1 DEF RestKnown
<1>10. QueueOK(updates, open, asks, cleared, rested)'
  BY <1>1, <1>5
<1> QED
  BY <1>1, <1>2, <1>3, <1>6, <1>7, <1>8, <1>9, <1>10 DEF ObservationInv

\* Events one by one
LEMMA EventIs ==
    ASSUME NEW kind \in {"state", "started", "ended", "requested", "resolved"}, NEW r \in Nat,
           NEW life \in Lives, NEW some \in BOOLEAN
    PROVE  /\ Emitted(kind, r, life, some) \in Event
           /\ Emitted(kind, r, life, some).kind = kind /\ Emitted(kind, r, life, some).id = r
           /\ Emitted(kind, r, life, some).life = life
BY DEF Emitted, Event, Lives

EventsOK(events, requests, before, made, rest) ==
    /\ events \in Seq(Event)
    /\ \A i \in 1..Len(events) : EventOK(events[i], requests, before, made, rest)

LEMMA EventsConcat ==
    ASSUME NEW s, NEW t, NEW requests, NEW before, NEW made, NEW rest,
           EventsOK(s, requests, before, made, rest), EventsOK(t, requests, before, made, rest)
    PROVE  EventsOK(s \o t, requests, before, made, rest)
<1>1. s \in Seq(Event) /\ t \in Seq(Event)
  BY DEF EventsOK
<1>2. /\ s \o t \in Seq(Event) /\ Len(s \o t) = Len(s) + Len(t) /\ Len(s) \in Nat /\ Len(t) \in Nat
      /\ (\A i \in 1..Len(s) : (s \o t)[i] = s[i]) /\ (\A i \in 1..Len(t) : (s \o t)[Len(s) + i] = t[i])
  BY <1>1
<1>3. \A i \in 1..Len(s \o t) : i \in 1..Len(s) \/ (i - Len(s) \in 1..Len(t) /\ i = Len(s) + (i - Len(s)))
  BY <1>2
<1> QED
  BY <1>2, <1>3 DEF EventsOK

LEMMA OneEvent ==
    ASSUME NEW kind \in {"state", "started", "ended"}, NEW life \in Lives, NEW some \in BOOLEAN,
           NEW requests, NEW before, NEW made, NEW rest, life = "running" \/ rest
    PROVE  EventsOK(<<Emitted(kind, NoAsk, life, some)>>, requests, before, made, rest)
<1>1. /\ Emitted(kind, NoAsk, life, some) \in Event
      /\ EventOK(Emitted(kind, NoAsk, life, some), requests, before, made, rest)
  BY EventIs DEF EventOK, NoAsk, Emitted
<1> DEFINE e == Emitted(kind, NoAsk, life, some)
<1> HIDE DEF e
<1>2. e \in Event /\ EventOK(e, requests, before, made, rest) => EventsOK(<<e>>, requests, before, made, rest)
  BY DEF EventsOK
<1> QED
  BY <1>1, <1>2 DEF e

LEMMA NoEvents ==
    ASSUME NEW requests, NEW before, NEW made, NEW rest
    PROVE  EventsOK(<<>>, requests, before, made, rest)
BY DEF EventsOK

LEMMA AllResolved ==
    ASSUME NEW life \in Lives, NEW made, NEW rest, life = "running" \/ rest, open \subseteq 1..asks
    PROVE  EventsOK(ResolvedAll(life), {}, asks, made, rest)
<1>1. /\ ResolvedAll(life) \in Seq(Event)
      /\ \A i \in 1..Len(ResolvedAll(life)) :
            /\ ResolvedAll(life)[i].kind = "resolved" /\ ResolvedAll(life)[i].life = life
            /\ ResolvedAll(life)[i].id \in open
  BY ResolvedAllIs DEF Lives
<1> QED
  BY <1>1 DEF EventsOK, EventOK

LEMMA StateIs ==
    ASSUME NEW life \in Lives, NEW some, NEW requests, NEW before, NEW made, NEW rest,
           life = "running" \/ rest
    PROVE  EventsOK(<<State(life, some)>>, requests, before, made, rest)
<1> DEFINE b == some # {}
<1>1. b \in BOOLEAN /\ State(life, some) = Emitted("state", NoAsk, life, b)
  BY DEF State
<1> HIDE DEF b
<1> QED
  BY <1>1, OneEvent

LEMMA PairIn ==
    ASSUME NEW S, NEW x \in S, NEW y \in S
    PROVE  <<x>> \o <<y>> = <<x, y>>
<1> DEFINE s == <<x>> \o <<y>>
           t == <<x, y>>
<1>1. s \in Seq(S) /\ t \in Seq(S) /\ Len(s) = 2 /\ Len(t) = 2
  OBVIOUS
<1>2. s[1] = x /\ s[2] = y /\ t[1] = x /\ t[2] = y
  OBVIOUS
<1> HIDE DEF s, t
<1>3. \A i \in 1..Len(s) : s[i] = t[i]
  BY <1>1, <1>2
<1> QED
  BY <1>1, <1>3, SeqEqual DEF s, t

LEMMA TripleIn ==
    ASSUME NEW S, NEW x \in S, NEW y \in S, NEW z \in S
    PROVE  (<<x>> \o <<y>>) \o <<z>> = <<x, y, z>>
<1> DEFINE p == <<x, y>>
           s == p \o <<z>>
           t == <<x, y, z>>
<1>1. s \in Seq(S) /\ t \in Seq(S) /\ Len(s) = 3 /\ Len(t) = 3
  OBVIOUS
<1>2. s[1] = x /\ s[2] = y /\ s[3] = z /\ t[1] = x /\ t[2] = y /\ t[3] = z
  OBVIOUS
<1> HIDE DEF s, t
<1>3. \A i \in 1..Len(s) : s[i] = t[i]
  BY <1>1, <1>2
<1>4. s = t
  BY <1>1, <1>3, SeqEqual
<1> QED
  BY <1>4, PairIn DEF s, t, p
LEMMA PairIs ==
    ASSUME NEW x, NEW y
    PROVE  <<x>> \o <<y>> = <<x, y>>
<1> DEFINE S == {x, y}
<1>1. x \in S /\ y \in S
  OBVIOUS
<1> HIDE DEF S
<1> QED
  BY <1>1, PairIn

LEMMA TripleIs ==
    ASSUME NEW x, NEW y, NEW z
    PROVE  (<<x>> \o <<y>>) \o <<z>> = <<x, y, z>>
<1> DEFINE S == {x, y, z}
<1>1. x \in S /\ y \in S /\ z \in S
  OBVIOUS
<1> HIDE DEF S
<1> QED
  BY <1>1, TripleIn

-----------------------------------------------------------------------------
(* The steps of the child *)

LEMMA ChildMovesOn ==
    ASSUME ObservationInv, NEW c \in Child, NEW requests, NEW events,
           Becomes(c, requests), Emits(events),
           RestKnown(c, requests, rested \/ Rests(c)),
           \/ asks' = asks /\ requests \subseteq open
           \/ asks' = asks + 1 /\ requests = open \cup {asks + 1},
           EventsOK(events, requests, asks, asks', rested \/ Rests(c))
    PROVE  ObservationInv' /\ telling' = telling
<1>1. asks \in Nat /\ open \subseteq 1..asks
  BY DEF ObservationInv, ObservedTypes
<1>2. /\ asks' \in Nat /\ asks <= asks' /\ requests \subseteq 1..asks'
      /\ \A r \in requests : r \in open \/ r \notin 1..asks
  <2>1. CASE asks' = asks /\ requests \subseteq open
    BY <1>1, <2>1
  <2>2. CASE asks' = asks + 1 /\ requests = open \cup {asks + 1}
    BY <1>1, <2>2
  <2> QED
    BY <2>1, <2>2
<1>3. ChildMovesTo(c, requests, events)
  BY <1>2 DEF ChildMovesTo, EventsOK
<1> QED
  BY <1>3, ChildStep

LEMMA ChildFacts ==
    ASSUME ObservationInv
    PROVE  /\ child \in Child /\ child.life \in Lives /\ asks \in Nat /\ open \subseteq 1..asks
           /\ rested \in BOOLEAN
           /\ child.run = "turn" => child.life = "running"
           /\ rested \/ child.life = "running"
                \/ (child.life = "idle" /\ child.run = "pending" /\ open = {})
BY DEF ObservationInv, ObservedTypes, RestKnown, Child

LEMMA PromptComesStep ==
    ASSUME ObservationInv, PromptComes PROVE ObservationInv' /\ telling' = telling
<1> DEFINE c == [child EXCEPT !.run = "pending"]
<1>1. c \in Child /\ c.life = child.life /\ c.run = "pending"
  BY ChildFacts DEF Child
<1>2. Becomes(c, open) /\ Emits(<<>>) /\ asks' = asks /\ child.run = "none"
  BY DEF PromptComes
<1> HIDE DEF c
<1>3. RestKnown(c, open, rested \/ Rests(c))
  BY <1>1, <1>2, ChildFacts DEF RestKnown
<1> QED
  BY <1>1, <1>2, <1>3, NoEvents, ChildMovesOn

LEMMA RunStartsStep ==
    ASSUME ObservationInv, RunStarts PROVE ObservationInv' /\ telling' = telling
<1> DEFINE c == [life |-> "running", run |-> "turn", hold |-> FALSE]
           rest == rested \/ Rests(c)
           s == <<Stream("started", "running")>>
           t == <<State("running", open)>>
<1>1. c \in Child /\ c.life = "running" /\ c.run = "turn"
  BY DEF Child, Lives
<1>2. Becomes(c, open) /\ Emits(s \o t) /\ asks' = asks
  <2>1. s \o t = <<Stream("started", "running"), State("running", open)>>
    BY PairIs
  <2> QED
    BY <2>1 DEF RunStarts
<1>3. EventsOK(s, open, asks, asks', rest) /\ EventsOK(t, open, asks, asks', rest)
  BY OneEvent DEF Lives, Stream, State
<1>4. RestKnown(c, open, rest)
  BY <1>1 DEF RestKnown
<1> HIDE DEF c, s, t
<1>5. EventsOK(s \o t, open, asks, asks', rest)
  BY <1>3, EventsConcat
<1> QED
  BY <1>1, <1>2, <1>4, <1>5, ChildMovesOn

LEMMA TurnStartsStep ==
    ASSUME ObservationInv, TurnStarts PROVE ObservationInv' /\ telling' = telling
<1> DEFINE c == [child EXCEPT !.life = "running", !.run = "turn"]
           rest == rested \/ Rests(c)
           s == <<State("running", open)>>
           t == <<Stream("started", "running")>>
<1>1. c \in Child /\ c.life = "running" /\ c.run = "turn"
  BY ChildFacts DEF Child, Lives
<1>2. Becomes(c, open) /\ Emits(s \o t) /\ asks' = asks
  <2>1. s \o t = <<State("running", open), Stream("started", "running")>>
    BY PairIs
  <2> QED
    BY <2>1 DEF TurnStarts
<1>3. EventsOK(s, open, asks, asks', rest) /\ EventsOK(t, open, asks, asks', rest)
  BY OneEvent DEF Lives, Stream, State
<1>4. RestKnown(c, open, rest)
  BY <1>1 DEF RestKnown
<1> HIDE DEF c, s, t
<1>5. EventsOK(s \o t, open, asks, asks', rest)
  BY <1>3, EventsConcat
<1> QED
  BY <1>1, <1>2, <1>4, <1>5, ChildMovesOn

LEMMA StartFailsStep ==
    ASSUME ObservationInv, StartFails PROVE ObservationInv' /\ telling' = telling
<1> DEFINE c == [life |-> "error", run |-> "none", hold |-> FALSE]
           rest == rested \/ Rests(c)
           s == ResolvedAll("error")
           t1 == <<State("error", {})>>
           t2 == <<Stream("ended", "error")>>
<1>1. c \in Child /\ c.life = "error" /\ c.run = "none" /\ rest
  BY DEF Child, Lives, Rests
<1>2. Becomes(c, {}) /\ Emits(s \o ((t1 \o t2) \o t1)) /\ asks' = asks
  <2>1. (t1 \o t2) \o t1 = <<State("error", {}), Stream("ended", "error"), State("error", {})>>
    BY TripleIs
  <2> QED
    BY <2>1 DEF StartFails
<1>3. EventsOK(s, {}, asks, asks', rest)
  BY <1>1, ChildFacts, AllResolved DEF Lives
<1>4. EventsOK(t1, {}, asks, asks', rest) /\ EventsOK(t2, {}, asks, asks', rest)
  BY <1>1, OneEvent DEF Lives, Stream, State
<1>5. RestKnown(c, {}, rest)
  BY <1>1 DEF RestKnown
<1> HIDE DEF c, s, t1, t2
<1>6. EventsOK(s \o ((t1 \o t2) \o t1), {}, asks, asks', rest)
  <2>1. EventsOK(t1 \o t2, {}, asks, asks', rest)
    BY <1>4, EventsConcat
  <2>2. EventsOK((t1 \o t2) \o t1, {}, asks, asks', rest)
    BY <1>4, <2>1, EventsConcat
  <2> QED
    BY <1>3, <2>2, EventsConcat
<1>7. {} \subseteq open
  OBVIOUS
<1> QED
  BY <1>1, <1>2, <1>5, <1>6, <1>7, ChildMovesOn

LEMMA StartIsStaleStep ==
    ASSUME ObservationInv, StartIsStale PROVE ObservationInv' /\ telling' = telling
<1> DEFINE c == [life |-> "idle", run |-> "none", hold |-> FALSE]
<1>1. c \in Child /\ c.run = "none" /\ Rests(c)
  BY DEF Child, Lives, Rests
<1>2. Becomes(c, open) /\ Emits(<<>>) /\ asks' = asks
  BY DEF StartIsStale
<1> HIDE DEF c
<1>3. RestKnown(c, open, rested \/ Rests(c))
  BY <1>1 DEF RestKnown
<1> QED
  BY <1>1, <1>2, <1>3, NoEvents, ChildMovesOn

LEMMA StartIsGivenUpStep ==
    ASSUME ObservationInv, StartIsGivenUp PROVE ObservationInv' /\ telling' = telling
<1> DEFINE life == IF child.hold THEN child.life ELSE "idle"
           c == [child EXCEPT !.life = life, !.run = "none"]
           rest == rested \/ Rests(c)
           s == IF child.hold THEN <<>> ELSE <<State("idle", open)>>
           one == <<State(life, {})>>
           t == IF open = {} THEN <<>> ELSE ResolvedAll(life) \o one
<1>1. life \in Lives /\ c \in Child /\ c.life = life /\ c.run = "none"
  BY ChildFacts DEF Child, Lives
<1>2. Becomes(c, {}) /\ Emits(s \o t) /\ asks' = asks
  BY DEF StartIsGivenUp
<1>3. life = "running" \/ rest
  BY <1>1 DEF Rests
<1>4. EventsOK(s, {}, asks, asks', rest)
  <2>1. CASE child.hold
    BY <2>1, NoEvents
  <2>2. CASE ~child.hold
    <3>1. rest
      BY <1>3, <2>2
    <3>2. EventsOK(<<State("idle", open)>>, {}, asks, asks', rest)
      BY <3>1, OneEvent DEF State, Lives
    <3> QED
      BY <2>2, <3>2
  <2> QED
    BY <2>1, <2>2
<1>5. RestKnown(c, {}, rest)
  BY <1>1, <1>3 DEF RestKnown
<1>6. EventsOK(one, {}, asks, asks', rest)
  BY <1>1, <1>3, OneEvent DEF State
<1>7. EventsOK(ResolvedAll(life), {}, asks, asks', rest)
  BY <1>1, <1>3, ChildFacts, AllResolved
<1> HIDE DEF c, s, one, life
<1>8. EventsOK(t, {}, asks, asks', rest)
  <2>1. EventsOK(ResolvedAll(life) \o one, {}, asks, asks', rest)
    BY <1>6, <1>7, EventsConcat
  <2> QED
    BY <2>1, NoEvents
<1> HIDE DEF t
<1>9. EventsOK(s \o t, {}, asks, asks', rest) /\ {} \subseteq open
  BY <1>4, <1>8, EventsConcat
<1> QED
  BY <1>1, <1>2, <1>5, <1>9, ChildMovesOn

LEMMA ReplaceBeginsStep ==
    ASSUME ObservationInv, ReplaceBegins PROVE ObservationInv' /\ telling' = telling
<1> DEFINE c == [child EXCEPT !.life = "running", !.hold = TRUE]
           s == <<State("running", open)>>
<1>1. c \in Child /\ c.life = "running"
  BY ChildFacts DEF Child, Lives
<1>2. Becomes(c, open) /\ Emits(s) /\ asks' = asks
  BY DEF ReplaceBegins
<1>3. EventsOK(s, open, asks, asks', rested \/ Rests(c))
  BY OneEvent DEF Lives, State
<1> HIDE DEF c, s
<1>4. RestKnown(c, open, rested \/ Rests(c))
  BY <1>1 DEF RestKnown
<1> QED
  BY <1>1, <1>2, <1>3, <1>4, ChildMovesOn

LEMMA ReplaceRefusedStep ==
    ASSUME ObservationInv, ReplaceRefused PROVE ObservationInv' /\ telling' = telling
<1> DEFINE c == [child EXCEPT !.hold = FALSE]
<1>1. c \in Child /\ c.life = child.life /\ c.run = child.run
  BY ChildFacts DEF Child
<1>2. Becomes(c, open) /\ Emits(<<>>) /\ asks' = asks
  BY DEF ReplaceRefused
<1> HIDE DEF c
<1>3. RestKnown(c, open, rested \/ Rests(c))
  BY <1>1, ChildFacts DEF RestKnown
<1> QED
  BY <1>1, <1>2, <1>3, NoEvents, ChildMovesOn

LEMMA TurnEndsStep ==
    ASSUME ObservationInv, NEW outcome \in {"completed", "canceled", "failed"}, TurnEnds(outcome)
    PROVE  ObservationInv' /\ telling' = telling
<1> DEFINE life == IF outcome = "failed" THEN "error" ELSE IF child.hold THEN "running" ELSE "idle"
           left == IF outcome = "completed" THEN open ELSE {}
           c == [child EXCEPT !.life = life, !.run = "none"]
           rest == rested \/ Rests(c)
           s == IF outcome = "completed" THEN <<>> ELSE ResolvedAll("running")
           t1 == IF life = "running" THEN <<>> ELSE <<State(life, left)>>
           t2 == <<Stream("ended", life)>>
<1>1. life \in Lives /\ c \in Child /\ c.life = life /\ c.run = "none" /\ left \subseteq open
  BY ChildFacts DEF Child, Lives
<1>2. Becomes(c, left) /\ Emits((s \o t1) \o t2) /\ asks' = asks
  <2>1. Becomes(c, left) /\ Emits(s \o t1 \o t2) /\ asks' = asks
    BY DEF TurnEnds
  <2> QED
    BY <2>1
<1>3. life = "running" \/ rest
  BY <1>1 DEF Rests
<1>4. EventsOK(s, left, asks, asks', rest)
  <2>1. EventsOK(ResolvedAll("running"), {}, asks, asks', rest)
    BY ChildFacts, AllResolved DEF Lives
  <2> QED
    BY <2>1, NoEvents
<1>5. EventsOK(t1, left, asks, asks', rest)
  <2>1. EventsOK(<<State(life, left)>>, left, asks, asks', rest)
    BY <1>1, <1>3, OneEvent DEF State
  <2> QED
    BY <2>1, NoEvents
<1>6. EventsOK(t2, left, asks, asks', rest)
  BY <1>1, <1>3, OneEvent DEF Stream
<1>7. RestKnown(c, left, rest)
  BY <1>1, <1>3 DEF RestKnown
<1> HIDE DEF c, s, t1, t2, left
<1>8. EventsOK((s \o t1) \o t2, left, asks, asks', rest)
  <2>1. EventsOK(s \o t1, left, asks, asks', rest)
    BY <1>4, <1>5, EventsConcat
  <2> QED
    BY <1>6, <2>1, EventsConcat
<1> QED
  BY <1>1, <1>2, <1>7, <1>8, ChildMovesOn

LEMMA AsksStep ==
    ASSUME ObservationInv, Asks PROVE ObservationInv' /\ telling' = telling
<1> DEFINE requests == open \cup {asks + 1}
           rest == rested \/ Rests(child)
           s == <<State(child.life, requests)>>
           e == RequestOf(asks + 1, child.life)
<1>1. child \in Child /\ child.life = "running" /\ asks \in Nat /\ child.run = "turn"
  BY ChildFacts DEF Asks
<1>2. Becomes(child, requests) /\ Emits(s \o <<e>>) /\ asks' = asks + 1
  <2>1. Becomes(child, requests) /\ open' = requests
    BY DEF Asks, Becomes
  <2>2. Emits(<<State(child.life, requests), e>>)
    BY <2>1 DEF Asks
  <2>3. s \o <<e>> = <<State(child.life, requests), e>>
    BY PairIs
  <2> QED
    BY <2>1, <2>2, <2>3 DEF Asks
<1> HIDE DEF requests, rest
<1>3. EventsOK(s, requests, asks, asks', rest)
  BY <1>1, StateIs DEF Lives
<1>4. e \in Event /\ e.kind = "requested" /\ e.id = asks + 1 /\ e.life = "running"
  BY <1>1 DEF RequestOf, Emitted, Event, Lives
<1> HIDE DEF s, e
<1>5. EventOK(e, requests, asks, asks', rest)
  BY <1>1, <1>2, <1>4 DEF EventOK
<1>6. EventsOK(<<e>>, requests, asks, asks', rest)
  BY <1>4, <1>5 DEF EventsOK
<1>7. EventsOK(s \o <<e>>, requests, asks, asks', rest)
  BY <1>3, <1>6, EventsConcat
<1>8. RestKnown(child, requests, rest)
  BY <1>1 DEF RestKnown
<1> QED
  BY <1>1, <1>2, <1>7, <1>8, ChildMovesOn DEF rest, requests

LEMMA AnsweredStep ==
    ASSUME ObservationInv, NEW r \in AskId, Answered(r)
    PROVE  ObservationInv' /\ telling' = telling
<1> DEFINE requests == open \ {r}
           rest == rested \/ Rests(child)
           s == <<State(child.life, requests)>>
           e == Resolved(r, child.life)
<1>1. /\ child \in Child /\ child.life \in Lives /\ r \in open /\ r \in 1..asks /\ r \in Nat
      /\ child.life = "running" \/ rest
  BY ChildFacts DEF Answered
<1>2. Becomes(child, requests) /\ Emits(s \o <<e>>) /\ asks' = asks
  <2>1. Becomes(child, requests) /\ open' = requests
    BY DEF Answered, Becomes
  <2>2. Emits(<<State(child.life, requests), e>>)
    BY <2>1 DEF Answered
  <2>3. s \o <<e>> = <<State(child.life, requests), e>>
    BY PairIs
  <2> QED
    BY <2>1, <2>2, <2>3 DEF Answered
<1> HIDE DEF requests, rest
<1>3. EventsOK(s, requests, asks, asks', rest)
  BY <1>1, StateIs
<1>4. e \in Event /\ e.kind = "resolved" /\ e.id = r /\ e.life = child.life
  BY <1>1 DEF Resolved, Emitted, Event, Lives
<1> HIDE DEF s, e
<1>5. EventOK(e, requests, asks, asks', rest)
  BY <1>1, <1>4 DEF EventOK, requests
<1>6. EventsOK(<<e>>, requests, asks, asks', rest)
  BY <1>4, <1>5 DEF EventsOK
<1>7. EventsOK(s \o <<e>>, requests, asks, asks', rest)
  BY <1>3, <1>6, EventsConcat
<1>8. RestKnown(child, requests, rest) /\ requests \subseteq open
  BY ChildFacts DEF RestKnown, requests, rest
<1> QED
  BY <1>1, <1>2, <1>7, <1>8, ChildMovesOn DEF rest

LEMMA ChildClosesStep ==
    ASSUME ObservationInv, ChildCloses PROVE ObservationInv' /\ telling' = telling
<1> DEFINE c == [life |-> "closed", run |-> "none", hold |-> FALSE]
           s == <<State("closed", {})>>
<1>1. c \in Child /\ c.run = "none" /\ Rests(c)
  BY DEF Child, Lives, Rests
<1>2. Becomes(c, {}) /\ Emits(s) /\ asks' = asks
  BY DEF ChildCloses
<1>3. EventsOK(s, {}, asks, asks', rested \/ Rests(c))
  BY <1>1, OneEvent DEF Lives, State
<1> HIDE DEF c, s
<1>4. RestKnown(c, {}, rested \/ Rests(c)) /\ {} \subseteq open
  BY <1>1 DEF RestKnown
<1> QED
  BY <1>1, <1>2, <1>3, <1>4, ChildMovesOn

-----------------------------------------------------------------------------
(* The steps of the observation *)

LEMMA ObservationFacts ==
    ASSUME ObservationInv
    PROVE  /\ ObservedTypes /\ RestKnown(child, open, rested) /\ (wait.at = "settled" => rested)
           /\ QueueOK(updates, open, asks, cleared, rested) /\ cleared \cap open = {}
           /\ buffer.entries \in Entries(cleared) /\ (buffer.terminal => rested)
           /\ child \in Child /\ asks \in Nat /\ open \subseteq 1..asks /\ cleared \subseteq 1..asks
           /\ updates \in Seq(Update) /\ wait \in Wait /\ buffer \in Buffer /\ rested \in BOOLEAN
BY DEF ObservationInv, ObservedTypes

LEMMA OpensStep ==
    ASSUME ObservationInv, Opens PROVE ObservationInv' /\ telling' = telling
<1>1. /\ UNCHANGED <<child, open, asks, buffer, telling, cleared, rested>>
      /\ wait' = [wait EXCEPT !.at = "dispatch"]
      /\ updates' = IF child.life = "closed" THEN ObserveState(State("closed", {})) ELSE <<>>
  BY DEF Opens, childVars
<1>2. wait' \in Wait /\ wait'.at # "settled"
  BY <1>1, ObservationFacts DEF Wait
<1>3. updates' \in Seq(Update) /\ QueueOK(updates', open, asks, cleared, rested)
  <2>1. CASE child.life # "closed"
    BY <1>1, <2>1 DEF QueueOK
  <2>2. CASE child.life = "closed"
    <3> DEFINE u == [kind |-> "terminal", id |-> NoAsk]
    <3>1. ObserveState(State("closed", {})) = <<u>>
      BY DEF ObserveState, State, Emitted, IsTerminal
    <3>2. u \in Update /\ u.kind = "terminal" /\ rested
      BY <2>2, ObservationFacts DEF Update, NoAsk, RestKnown
    <3> HIDE DEF u
    <3>3. <<u>> \in Seq(Update) /\ QueueOK(<<u>>, open, asks, cleared, rested)
      BY <3>2 DEF QueueOK, UpdateOK
    <3> QED
      BY <1>1, <2>2, <3>1, <3>3
  <2> QED
    BY <2>1, <2>2
<1> QED
  BY <1>1, <1>2, <1>3, ObservationFacts DEF ObservationInv, ObservedTypes, RestKnown

LEMMA WaitBeginsStep ==
    ASSUME ObservationInv, WaitBegins PROVE ObservationInv' /\ telling' = telling
<1>1. /\ UNCHANGED <<child, open, asks, updates, buffer, telling, cleared, rested>>
      /\ wait' = [at |-> IF open # {} THEN "permission" ELSE IF Rests(child) THEN "settled" ELSE "armed",
                  started |-> Busy \/ child.run = "turn"]
  BY DEF WaitBegins, childVars
<1>2. wait' \in Wait
  BY <1>1 DEF Wait
<1>3. wait'.at = "settled" => rested
  BY <1>1, ObservationFacts DEF RestKnown, Rests
<1> QED
  BY <1>1, <1>2, <1>3, ObservationFacts DEF ObservationInv, ObservedTypes, RestKnown

LEMMA WaitAnswersStep ==
    ASSUME ObservationInv, WaitAnswers PROVE ObservationInv' /\ telling' = telling
<1>1. /\ UNCHANGED <<child, open, asks, updates, telling, cleared, rested>>
      /\ wait' = [wait EXCEPT !.at = "over"] /\ wait.at \in {"permission", "settled"}
      /\ buffer' = PushInitial(buffer)
  BY DEF WaitAnswers, childVars
<1>2. wait' \in Wait /\ wait'.at # "settled"
  BY <1>1, ObservationFacts DEF Wait
<1>3. buffer' \in Buffer /\ buffer'.entries \in Entries(cleared) /\ (buffer'.terminal => rested)
  <2> DEFINE b == [buffer EXCEPT !.initial = FALSE, !.early = {}]
             names == open \ buffer.early
  <2>1. /\ b \in Buffer /\ b.entries = buffer.entries /\ b.terminal = buffer.terminal
        /\ b.entries \in Entries(cleared)
    BY ObservationFacts DEF Buffer
  <2>2. names \in SUBSET Nat /\ names \cap cleared = {}
    BY ObservationFacts
  <2>3. buffer' = IF wait.at = "permission" THEN PushPermission(b, names)
                  ELSE [b EXCEPT !.terminal = @ \/ ~Busy]
    BY <1>1 DEF PushInitial
  <2> HIDE DEF b, names
  <2>4. CASE wait.at = "permission"
    BY <2>1, <2>2, <2>3, <2>4, PushPermissionIs, ObservationFacts
  <2>5. CASE wait.at = "settled"
    <3>1. buffer' = [b EXCEPT !.terminal = @ \/ ~Busy] /\ rested
      BY <2>3, <2>5, ObservationFacts
    <3> QED
      BY <2>1, <3>1 DEF Buffer
  <2> QED
    BY <1>1, <2>4, <2>5
<1> QED
  BY <1>1, <1>2, <1>3, ObservationFacts DEF ObservationInv, ObservedTypes, RestKnown

LEMMA HandlesUpdateStep ==
    ASSUME ObservationInv, HandlesUpdate PROVE ObservationInv' /\ telling' = telling
<1> DEFINE u == Head(updates)
           r == u.id
           done == IF u.kind = "resolved" THEN cleared \cup {r} ELSE cleared
<1>1. /\ updates # <<>> /\ updates' = Tail(updates) /\ cleared' = done
      /\ buffer' = CASE u.kind = "resolved"  -> Resolves(buffer, r)
                     [] u.kind = "requested" -> PushPermission(buffer, {r})
                     [] u.kind = "terminal"  -> [buffer EXCEPT !.terminal = TRUE]
      /\ UNCHANGED <<child, open, asks, wait, telling, rested>>
  BY DEF HandlesUpdate, childVars
<1>2. /\ u = updates[1] /\ u \in Update /\ updates' \in Seq(Update) /\ 1 \in 1..Len(updates)
      /\ Len(updates') = Len(updates) - 1 /\ Len(updates) \in Nat
      /\ \A i \in 1..Len(updates') : updates'[i] = updates[i + 1] /\ i + 1 \in 1..Len(updates)
  BY <1>1, ObservationFacts, TailIs
<1>3. UpdateOK(u, open, asks, cleared, rested)
  BY <1>2, ObservationFacts DEF QueueOK
<1> HIDE DEF u
<1>4. u.kind \in {"resolved", "requested", "terminal"} /\ r \in Nat
  BY <1>2 DEF Update
<1>5. QueueOK(updates', open, asks, done, rested)
  <2>1. \A i \in 1..Len(updates') : UpdateOK(updates'[i], open, asks, cleared, rested)
    BY <1>2, ObservationFacts DEF QueueOK
  <2>2. ASSUME NEW i \in 1..Len(updates'), NEW j \in 1..Len(updates'), i < j,
               updates'[i].kind = "resolved", updates'[j].kind = "requested"
        PROVE  updates'[i].id # updates'[j].id
    BY <1>2, <2>2, ObservationFacts DEF QueueOK
  <2>3. ASSUME NEW i \in 1..Len(updates'), u.kind = "resolved", updates'[i].kind = "requested"
        PROVE  updates'[i].id # r
    <3>1. 1 < i + 1
      OBVIOUS
    <3> QED
      BY <1>2, <2>3, <3>1, ObservationFacts DEF QueueOK
  <2>4. \A i \in 1..Len(updates') : UpdateOK(updates'[i], open, asks, done, rested)
    BY <2>1, <2>3 DEF UpdateOK
  <2> QED
    BY <2>2, <2>4 DEF QueueOK
<1>6. done \subseteq 1..asks /\ done \cap open = {}
  BY <1>3, ObservationFacts DEF UpdateOK
<1>7. buffer' \in Buffer /\ buffer'.entries \in Entries(done) /\ (buffer'.terminal => rested)
  <2>1. CASE u.kind = "resolved"
    <3> DEFINE q == Others(buffer.entries, {r})
    <3>1. q \in Entries(cleared \cup {r})
      BY OthersAre, ObservationFacts
    <3>2. q \in Seq(Entry)
      BY <3>1 DEF Entries
    <3>3. buffer' = [buffer EXCEPT !.early = IF buffer.initial THEN @ \cup {r} ELSE @,
                                   !.delivered = @ \ {r}, !.entries = q]
      BY <1>1, <2>1 DEF Resolves
    <3> HIDE DEF q
    <3>4. buffer' \in Buffer /\ buffer'.entries = q /\ buffer'.terminal = buffer.terminal
      BY <1>4, <3>2, <3>3, ObservationFacts DEF Buffer
    <3> QED
      BY <2>1, <3>1, <3>4, ObservationFacts
  <2>2. CASE u.kind = "requested"
    <3>1. buffer' = PushPermission(buffer, {r})
      BY <1>1, <2>2
    <3>2. {r} \in SUBSET Nat /\ {r} \cap cleared = {}
      BY <1>3, <1>4, <2>2 DEF UpdateOK
    <3> QED
      BY <2>2, <3>1, <3>2, PushPermissionIs, ObservationFacts
  <2>3. CASE u.kind = "terminal"
    <3>1. buffer' = [buffer EXCEPT !.terminal = TRUE] /\ rested
      BY <1>1, <1>3, <2>3 DEF UpdateOK
    <3> QED
      BY <2>3, <3>1, ObservationFacts DEF Buffer
  <2> QED
    BY <1>4, <2>1, <2>2, <2>3
<1> HIDE DEF done
<1> QED
  BY <1>1, <1>2, <1>5, <1>6, <1>7, ObservationFacts DEF ObservationInv, ObservedTypes, RestKnown

\* A notice that is taken is true
LEMMA TakesStep ==
    ASSUME ObservationInv, Takes
    PROVE  /\ ObservationInv'
           /\ IF telling'.kind = "finish" THEN rested ELSE \E r \in telling'.names : r \notin cleared
<1>1. /\ HasResult
      /\ telling' = IF buffer.entries # <<>>
                    THEN [kind |-> "permission", names |-> Head(buffer.entries).names]
                    ELSE [kind |-> "finish", names |-> {}]
      /\ buffer' = [buffer EXCEPT !.delivered = @ \cup telling'.names,
                                  !.terminal = @ /\ telling'.kind # "finish",
                                  !.entries = Others(@, telling'.names)]
      /\ UNCHANGED <<child, open, asks, updates, wait, cleared, rested>>
  BY DEF Takes, childVars
<1>2. telling'.names \in SUBSET Nat /\ IF telling'.kind = "finish" THEN rested
                                       ELSE \E r \in telling'.names : r \notin cleared
  <2>1. CASE buffer.entries # <<>>
    <3> DEFINE x == Head(buffer.entries)
    <3>1. x \in Entry /\ EntryOK(x, cleared)
      <4>1. /\ buffer.entries \in Seq(Entry) /\ buffer.entries # <<>>
            /\ \A i \in 1..Len(buffer.entries) : EntryOK(buffer.entries[i], cleared)
        BY <2>1, ObservationFacts DEF Entries
      <4>2. x = buffer.entries[1] /\ x \in Entry /\ 1 \in 1..Len(buffer.entries)
        BY <4>1, TailIs
      <4> QED
        BY <4>1, <4>2
    <3> HIDE DEF x
    <3>2. telling' = [kind |-> "permission", names |-> x.names]
      BY <1>1, <2>1 DEF x
    <3> QED
      BY <3>1, <3>2 DEF Entry, EntryOK
  <2>2. CASE buffer.entries = <<>>
    <3>1. rested
      BY <1>1, <2>2, ObservationFacts DEF HasResult
    <3> QED
      BY <1>1, <2>2, <3>1
  <2> QED
    BY <2>1, <2>2
<1>3. buffer' \in Buffer /\ buffer'.entries \in Entries(cleared) /\ (buffer'.terminal => buffer.terminal)
  <2> DEFINE q == Others(buffer.entries, telling'.names)
  <2>1. q \in Entries(cleared)
    BY OthersAre, ObservationFacts
  <2>2. q \in Seq(Entry)
    BY <2>1 DEF Entries
  <2>3. (buffer.terminal /\ telling'.kind # "finish") \in BOOLEAN
    OBVIOUS
  <2> HIDE DEF q
  <2>4. buffer' = [buffer EXCEPT !.delivered = @ \cup telling'.names,
                                 !.terminal = @ /\ telling'.kind # "finish", !.entries = q]
    BY <1>1 DEF q
  <2> QED
    BY <1>2, <2>1, <2>2, <2>3, <2>4, ObservationFacts DEF Buffer
<1> QED
  BY <1>1, <1>2, <1>3, ObservationFacts DEF ObservationInv, ObservedTypes, RestKnown

LEMMA TellsStep ==
    ASSUME ObservationInv, Tells PROVE ObservationInv' /\ telling' = Nothing
<1>1. /\ UNCHANGED <<child, open, asks, updates, wait, buffer, cleared, rested>>
      /\ telling' = Nothing
  BY DEF Tells, childVars
<1> QED
  BY <1>1, ObservationFacts DEF ObservationInv, ObservedTypes, RestKnown

\* A notice is taken by Takes only
NoticeIsTrue ==
    telling' # Nothing /\ telling = Nothing =>
       IF telling'.kind = "finish" THEN rested ELSE \E r \in telling'.names : r \notin cleared

LEMMA ObservationStep ==
    ASSUME ObservationInv, [ObservationNext]_observationVars
    PROVE  ObservationInv' /\ NoticeIsTrue
<1>1. CASE Takes
  BY <1>1, TakesStep DEF NoticeIsTrue
<1>2. CASE ChildMoves
  <2>1. ASSUME NEW outcome \in {"completed", "canceled", "failed"}, TurnEnds(outcome)
        PROVE  ObservationInv' /\ telling' = telling
    BY <2>1, TurnEndsStep
  <2>2. ASSUME NEW r \in AskId, Answered(r) PROVE ObservationInv' /\ telling' = telling
    BY <2>2, AnsweredStep
  <2>3. ObservationInv' /\ telling' = telling
    BY <1>2, <2>1, <2>2, PromptComesStep, RunStartsStep, TurnStartsStep, StartFailsStep,
       StartIsStaleStep, StartIsGivenUpStep, ReplaceBeginsStep, ReplaceRefusedStep, AsksStep,
       ChildClosesStep DEF ChildMoves
  <2> QED
    BY <2>3 DEF NoticeIsTrue
<1>3. CASE Opens \/ WaitBegins \/ WaitAnswers \/ HandlesUpdate
  BY <1>3, OpensStep, WaitBeginsStep, WaitAnswersStep, HandlesUpdateStep DEF NoticeIsTrue
<1>4. CASE Tells
  BY <1>4, TellsStep DEF NoticeIsTrue
<1>5. CASE UNCHANGED observationVars
  <2>1. UNCHANGED <<child, open, asks, updates, wait, buffer, telling, cleared, rested>>
    BY <1>5 DEF observationVars, childVars, watchVars
  <2> QED
    BY <2>1, ObservationFacts DEF ObservationInv, ObservedTypes, RestKnown, NoticeIsTrue
<1> QED
  BY <1>1, <1>2, <1>3, <1>4, <1>5 DEF ObservationNext

(***************************************************************************)
(* What is on its way to the caller is true: ends of a child that has been *)
(* at rest, requests whose resolution is not known.                        *)
(***************************************************************************)
THEOREM ObservationInvHolds == ObservationSpec => []ObservationInv
<1>1. ObservationInv /\ [ObservationNext]_observationVars => ObservationInv'
  BY ObservationStep
<1> QED
  BY <1>1, ObservationStarts, PTL DEF ObservationSpec

(***************************************************************************)
(* No caller is told that a child finished which has not been at rest      *)
(* since the subscription was accepted, or asked for a permission only of  *)
(* requests that it knows are resolved: for any number of requests, turns, *)
(* replacements and events, and however late the initial wait answers.     *)
(***************************************************************************)
THEOREM NoticesAreTrueHolds == ObservationSpec => NoticesAreTrue
<1>1. ObservationInv /\ [ObservationNext]_observationVars =>
         [telling' # Nothing /\ telling = Nothing =>
            IF telling'.kind = "finish" THEN rested
            ELSE \E r \in telling'.names : r \notin cleared]_observationVars
  BY ObservationStep DEF NoticeIsTrue
<1> QED
  BY <1>1, ObservationInvHolds, PTL DEF ObservationSpec, NoticesAreTrue
=============================================================================
